---- MODULE Spec2Model ----
(***************************************************************************)
(* A model of hiyori's HttpClient: the connection pool (_conns), the       *)
(* read/close coordination lock (_ReadLock, _CloseLock), the idle timer of *)
(* HttpConnection and the life of HttpClient.send_request and              *)
(* HttpClient.close as asyncio tasks.  One action is one run of a task     *)
(* from a suspension point to the next one.                                *)
(***************************************************************************)
EXTENDS Integers, Sequences, FiniteSets, TLC

\* ------------------------------------------------------------------ bounds
NumRequests == 2        \* request tasks running through one client
NumConnIds == 2         \* distinct HttpConnectionId values requested
NumConns == 2           \* HttpConnection objects constructed in one run
MaxTimeout == 2         \* largest timeout, in clock ticks
MaxIdleConnections == 1 \* largest max_idle_connections option
MaxBodyLen == 2         \* longest request body, in bytes
MaxChunkSize == 1       \* largest chunk_size option, in bytes
MaxFields == 2          \* most fields of a multipart form
MaxPartLen == 2         \* longest buffer or file of a body, in bytes
MaxPrefixLen == 2       \* longest header block of a file field, in bytes
MaxAffixLen == 2        \* longest closing boundary of a multipart body
MaxReadSize == 2        \* largest n of body.read(n)
MaxRedirects == 2       \* largest max_redirects, per call or of the client
MaxBodySize == 2        \* largest max_body_size, per call or of the client
NumKeys == 2            \* distinct (host, port) pairs looked up
NumLookups == 2         \* lookup tasks running through one resolver
MaxTime == 2            \* last reading of time.monotonic()
MaxTtl == 2             \* largest TTL of a DNS answer
MaxMinTtl == 1          \* largest min_ttl option
NumRecords == 3         \* records of one ResolvedResult

Requests == 1..NumRequests
ConnIds == 1..NumConnIds
Conns == 1..NumConns

\* Optional[int]: None is the empty tuple, a value v is <<v>>.
None == <<>>
TimeoutArgs == {None} \cup {<<t>> : t \in 1..MaxTimeout}

\* Status codes a server answers with (200 OK, 404 Not Found).
StatusCodes == {200, 404}

\* RuntimeError("Client is closing.") of _ReadLock.__aenter__ and
\* RuntimeError("This connection is closing.") of HttpConnection.get_ready.
ClientIsClosing == "RuntimeError: Client is closing."
ConnIsClosing == "RuntimeError: This connection is closing."

\* What the exchange of HttpConnection.send_request raises by itself: a mapped
\* codec fault (connection.py 183-194) or an unmapped Exception (line 136).
ExchangeErrors == {"ConnectionClosed", "UnboundLocalError"}

VARIABLES
    \* HttpClient.__init__ options and the interpreter
    allow_keep_alive,       \* self._allow_keep_alive
    client_timeout,         \* self._timeout
    max_idle_connections,   \* self._max_idle_connections
    client_raise_error,     \* self._raise_error
    \* HttpClient state
    conns,                  \* self._conns: the pool, in insertion order
    read_count,             \* _ReadLock._count
    idling,                 \* _ReadLock._idling (asyncio.Event)
    close_closing,          \* _CloseLock._closing
    \* HttpConnection objects
    numConns,               \* objects constructed so far
    conn_id,                \* HttpConnection.conn_id
    closing,                \* HttpConnection._closing (asyncio.Event)
    idle_timer,             \* HttpConnection._idle_timer is armed
    \* request tasks
    pc,                     \* position of the task
    held,                   \* how many times the task holds the read-lock
    req_id,                 \* PendingRequest.conn_id
    req_timeout,            \* the timeout argument
    req_raise_error,        \* the raise_error argument
    elapsed,                \* ticks spent inside asyncio.wait_for
    conn,                   \* the connection checked out (0: none)
    read_response_body,     \* the read_response_body argument
    status_code,            \* response.status_code (0: no response)
    exc,                    \* the exception that left the call ("": none)
    afterClose,             \* the call began after close() had returned
    \* the close() task
    pcClose,                \* "idle", "waiting", "awaiting", "returned"
    closeWoken,             \* the waiter of _idling.wait() has been woken
    tasks,                  \* connections close() popped and is awaiting
    pooledAtClose,          \* the pool when close() began to pop
    awaited,                \* connections whose wait_closed() close() has awaited
    \* one run of HttpConnection.send_request
    send_pc,                \* position in HttpConnection.send_request
    chunk_size,             \* self._chunk_size
    headers_in,             \* __request.headers when send_request is called
    headers,                \* __request.headers
    body,                   \* __request.body: what calc_len gives, bytes left to read
    body_len,               \* the local variable body_len (None: not bound)
    written,                \* what the codec writer has been given
    send_exc,               \* the exception that left send_request ("": none)
    send_fault,             \* the codec fault raised inside send_request ("": none)
    send_rrb,               \* the read_response_body argument
    client_max_body_size,   \* HttpClient._max_body_size
    max_body_size,          \* the max_body_size argument of HttpClient.send_request
    resp_len,               \* bytes of response body the server sends
    body_buf,               \* len(body_buf)
    aborted,                \* reader.abort() has been called
    conn_closed,            \* self.close() has been called
    \* one request body and its caller
    rbody,                  \* the body object
    pass,                   \* 1: first reading, 2: reading after seek_front
    out,                    \* bytes read() returned in this pass
    first,                  \* bytes read() returned in the first pass
    at_eof,                 \* read() has raised EOFError in this pass
    len_seen,               \* the last calc_len of this pass: <<value, Len(out)>>
    \* one run of HttpClient._handle_redirection
    redir_pc,               \* "send", "follow", "returned", "raised"
    client_max_redirects,   \* self._max_redirects
    max_redirects,          \* the max_redirects argument
    loop_i,                 \* the loop variable i
    request,                \* __request
    next_request,           \* the request the driver is about to send
    prev_request,           \* the request sent last (None: none yet)
    response,               \* the response received last (None: none)
    sent_count,             \* requests handed to send_request or fetch
    body_pos,               \* read position of __request.body: "front", "end"
    redir_exc,              \* the exception that left the driver ("": none)
    hop_max_body_size,      \* the max_body_size argument the last request went out with
    hop_body_len,           \* bytes of body the server answered the last request with
    \* one resolver and its lookup tasks
    resolver_kind,          \* the subclass of BaseResolver
    min_ttl,                \* self._min_ttl
    respect_remote_ttl,     \* self._respect_remote_ttl
    now,                    \* time.monotonic()
    cache,                  \* self._cache
    overrides,              \* self._overrides
    lk_pc,                  \* position of the lookup task
    lk_key,                 \* its (host, port)
    lk_result,              \* the ResolvedResult it returned (None: none)
    lk_calls,               \* calls of lookup_now it made
    lk_answers,             \* what its lookup_now was answered (None: not called)
    probe,                  \* the last result.expired(): <<result, time, value>>
    \* one call of ResolvedResult.connect_fastest
    cf_pc,                  \* position of the caller
    cf_results,             \* self.results
    cf_connectable,         \* the records a connect attempt to which succeeds
    cf_fastest,             \* self._fastest (0: None)
    cf_direct,              \* the attempt to the cached record, awaited in line
    cf_task,                \* the connect task of each record
    cf_pending,             \* the local variable pending
    cf_after,               \* what leaves the try block once finally is through
    cf_ret,                 \* the record of the transport returned (0: none)
    cf_exc                  \* the exception that left connect_fastest ("": none)

clientVars == <<allow_keep_alive, client_timeout, max_idle_connections,
                client_raise_error>>
lockVars == <<read_count, idling, close_closing>>
connVars == <<numConns, conn_id, closing, idle_timer>>
reqVars == <<pc, held, req_id, req_timeout, req_raise_error, elapsed, conn, read_response_body,
             status_code, exc, afterClose>>
closeVars == <<pcClose, closeWoken, tasks, pooledAtClose, awaited>>
poolVars == <<clientVars, conns, lockVars, connVars, reqVars, closeVars>>
respVars == <<send_rrb, client_max_body_size, max_body_size, resp_len, body_buf,
              aborted, conn_closed>>
sendVars == <<send_pc, chunk_size, headers_in, headers, body, body_len, written,
              send_exc, send_fault, respVars>>
bodyVars == <<rbody, pass, out, first, at_eof, len_seen>>
redirVars == <<redir_pc, client_max_redirects, max_redirects, loop_i, request,
               next_request, prev_request, response, sent_count, body_pos,
               hop_max_body_size, hop_body_len,
               redir_exc>>
resolverVars == <<resolver_kind, min_ttl, respect_remote_ttl, now, cache,
                  overrides, lk_pc, lk_key, lk_result, lk_calls, lk_answers,
                  probe>>
connectVars == <<cf_pc, cf_results, cf_connectable, cf_fastest, cf_direct,
                 cf_task, cf_pending, cf_after, cf_ret, cf_exc>>
notPoolVars == <<sendVars, bodyVars, redirVars, resolverVars, connectVars>>
notSendVars == <<poolVars, bodyVars, redirVars, resolverVars, connectVars>>
notBodyVars == <<poolVars, sendVars, redirVars, resolverVars, connectVars>>
notRedirVars == <<poolVars, sendVars, bodyVars, resolverVars, connectVars>>
notResolverVars == <<poolVars, sendVars, bodyVars, redirVars, connectVars>>
notConnectVars == <<poolVars, sendVars, bodyVars, redirVars, resolverVars>>
vars == <<poolVars, sendVars, bodyVars, redirVars, resolverVars, connectVars>>

Range(s) == {s[i] : i \in 1..Len(s)}

\* ------------------------------------------------------------ HttpConnection

\* HttpConnection.closing()
IsClosingMutant(c) == FALSE
IsClosing(c) == closing[c]

\* ---------------------------------------------------------------- the pool

\* The pooled connection stored under id, 0 when the id is not a key.
Pooled(id) ==
    IF \E i \in 1..Len(conns) : conn_id[conns[i]] = id
    THEN conns[CHOOSE i \in 1..Len(conns) : conn_id[conns[i]] = id]
    ELSE 0

\* self._conns.pop(id)
PoolWithoutMutant(id) == conns
PoolWithout(id) == SelectSeq(conns, LAMBDA c : conn_id[c] # id)

\* _put_conn closes the connection instead of keeping it (first branch).
PutConnRefusesMutant(c) == allow_keep_alive = FALSE
PutConnRefuses(c) == IsClosing(c) \/ allow_keep_alive = FALSE

\* _put_conn stores the connection (second branch).
PutConnStoresMutant(c) == ~PutConnRefuses(c)
PutConnStores(c) == ~PutConnRefuses(c) /\ Pooled(conn_id[c]) = 0

\* ------------------------------------------------------------- the read-lock

\* _ReadLock.__aenter__ raises RuntimeError("Client is closing.")
ReadLockRefusesMutant == FALSE
ReadLockRefuses == close_closing

\* _ReadLock.__aexit__: set _idling when the count is back at zero.
IdlingAfterExitMutant(n, was) == TRUE
IdlingAfterExit(n, was) == IF n = 0 THEN TRUE ELSE was

\* n nested __aexit__ of one task, innermost first, without suspension.
ReadLockExit(n) ==
    /\ read_count' = read_count - n
    /\ idling' = (IF n = 0 THEN idling ELSE IdlingAfterExit(read_count - n, idling))
    /\ closeWoken' = (closeWoken \/ (pcClose = "waiting" /\ ~idling /\ idling'))
    /\ UNCHANGED close_closing

\* ------------------------------------------------------------- send_request

\* _timeout = timeout if timeout is not None else self._timeout
EffectiveTimeoutMutant(t) == client_timeout
EffectiveTimeout(t) == IF t # None THEN t[1] ELSE client_timeout

\* _raise_error = raise_error if raise_error is not None else self._raise_error
EffectiveRaiseErrorMutant(a) == client_raise_error
EffectiveRaiseError(a) == IF a # None THEN a[1] ELSE client_raise_error

\* The except clauses around asyncio.wait_for: which exceptions reach
\* conn.close(); await conn.wait_closed().
\* asyncio.CancelledError is caught by "except Exception" only where it derives
\* from Exception (Python < 3.8): legacy.
HandlerClosesMutant(e, legacy) == e = "TimeoutError"
HandlerCloses(e, legacy) ==
    \/ e = "TimeoutError"
    \/ e \in ExchangeErrors \cup {ConnIsClosing, "UnresolvableHost"}
    \/ (e = "CancelledError" /\ legacy)

\* What leaves send_request for an exception e of asyncio.wait_for.
Raised(e) == IF e = "TimeoutError" THEN "RequestTimeout" ELSE e

InFlight(r) == pc[r] \in {"start", "exchange"}

\* The state after HttpClient.__init__, the options drawn from the given sets.
InitClient(timeouts, flags) ==
    /\ allow_keep_alive \in flags
    /\ client_timeout \in timeouts
    /\ max_idle_connections \in 1..MaxIdleConnections
    /\ client_raise_error \in flags
    /\ conns = <<>>
    /\ read_count = 0
    /\ idling = TRUE
    /\ close_closing = FALSE
    /\ numConns = 0
    /\ conn_id = [c \in Conns |-> 0]
    /\ closing = [c \in Conns |-> FALSE]
    /\ idle_timer = [c \in Conns |-> FALSE]
    /\ pc = [r \in Requests |-> "idle"]
    /\ held = [r \in Requests |-> 0]
    /\ req_id = [r \in Requests |-> 0]
    /\ req_timeout = [r \in Requests |-> None]
    /\ req_raise_error = [r \in Requests |-> None]
    /\ elapsed = [r \in Requests |-> 0]
    /\ conn = [r \in Requests |-> 0]
    /\ read_response_body = [r \in Requests |-> TRUE]
    /\ status_code = [r \in Requests |-> 0]
    /\ exc = [r \in Requests |-> ""]
    /\ afterClose = [r \in Requests |-> FALSE]
    /\ pcClose = "idle"
    /\ closeWoken = FALSE
    /\ tasks = {}
    /\ pooledAtClose = {}
    /\ awaited = {}

\* No run of HttpConnection.send_request is looked into.
NoSend ==
    /\ send_pc = "off"
    /\ chunk_size = 1
    /\ headers_in = [cl |-> None, te |-> None]
    /\ headers = [cl |-> None, te |-> None]
    /\ body = [len |-> None, left |-> 0]
    /\ body_len = None
    /\ written = [headers |-> None, bytes |-> 0, finished |-> FALSE]
    /\ send_exc = ""
    /\ send_fault = ""
    /\ send_rrb = TRUE
    /\ client_max_body_size = 0
    /\ max_body_size = None
    /\ resp_len = 0
    /\ body_buf = 0
    /\ aborted = FALSE
    /\ conn_closed = FALSE

\* No request body is looked into.
NoBody ==
    /\ rbody = [kind |-> "empty", len |-> 0, pos |-> 0, plen |-> 0, ptr |-> 0]
    /\ pass = 1
    /\ out = <<>>
    /\ first = <<>>
    /\ at_eof = FALSE
    /\ len_seen = None

\* No run of the redirect driver is looked into.
NoRedirect ==
    /\ redir_pc = "off"
    /\ client_max_redirects = 0
    /\ max_redirects = None
    /\ loop_i = 0
    /\ request = None
    /\ next_request = None
    /\ prev_request = None
    /\ response = None
    /\ sent_count = 0
    /\ body_pos = "front"
    /\ redir_exc = ""
    /\ hop_max_body_size = None
    /\ hop_body_len = 0

\* No resolver is looked into.
NoResolver ==
    /\ resolver_kind = "system"
    /\ min_ttl = 0
    /\ respect_remote_ttl = TRUE
    /\ now = 0
    /\ cache = [k \in 1..NumKeys |-> None]
    /\ overrides = [k \in 1..NumKeys |-> None]
    /\ lk_pc = [t \in 1..NumLookups |-> "idle"]
    /\ lk_key = [t \in 1..NumLookups |-> 0]
    /\ lk_result = [t \in 1..NumLookups |-> None]
    /\ lk_calls = [t \in 1..NumLookups |-> 0]
    /\ lk_answers = [t \in 1..NumLookups |-> None]
    /\ probe = None

\* No call of connect_fastest is looked into.
NoConnect ==
    /\ cf_pc = "off"
    /\ cf_results = {}
    /\ cf_connectable = {}
    /\ cf_fastest = 0
    /\ cf_direct = "none"
    /\ cf_task = [r \in 1..NumRecords |-> "none"]
    /\ cf_pending = {}
    /\ cf_after = ""
    /\ cf_ret = 0
    /\ cf_exc = ""

\* Requests through one client whose calls all use the client's timeout, which
\* is one tick long, and the client's raise_error.
Init == InitClient({1}, BOOLEAN) /\ NoSend /\ NoBody /\ NoRedirect /\ NoResolver
        /\ NoConnect

\* A call may begin while connection objects are left for it.
Budget == numConns + Cardinality({r \in Requests : pc[r] \in {"fetch_aenter", "aenter"}}) < NumConns

\* A task calls HttpClient.fetch: it suspends in _ReadLock.__aenter__.
Fetch(r, id, t) ==
    /\ pc[r] = "idle"
    /\ Budget
    /\ pc' = [pc EXCEPT ![r] = "fetch_aenter"]
    /\ req_id' = [req_id EXCEPT ![r] = id]
    /\ req_timeout' = [req_timeout EXCEPT ![r] = t]
    /\ afterClose' = [afterClose EXCEPT ![r] = (pcClose = "returned")]
    /\ UNCHANGED <<clientVars, conns, lockVars, connVars, closeVars,
                   held, elapsed, conn, read_response_body, status_code, exc,
                   req_raise_error>>
    /\ UNCHANGED notPoolVars

\* A task calls HttpClient.send_request (follow_redirection=False) directly.
SendRequest(r, id, t) ==
    /\ pc[r] = "idle"
    /\ Budget
    /\ pc' = [pc EXCEPT ![r] = "aenter"]
    /\ req_id' = [req_id EXCEPT ![r] = id]
    /\ req_timeout' = [req_timeout EXCEPT ![r] = t]
    /\ afterClose' = [afterClose EXCEPT ![r] = (pcClose = "returned")]
    /\ UNCHANGED <<clientVars, conns, lockVars, connVars, closeVars,
                   held, elapsed, conn, read_response_body, status_code, exc,
                   req_raise_error>>
    /\ UNCHANGED notPoolVars

\* fetch resumes from sleep(0) in _ReadLock.__aenter__, builds the request and
\* calls send_request, which suspends in its own __aenter__.
FetchEnter(r) ==
    /\ pc[r] = "fetch_aenter"
    /\ IF ReadLockRefuses
       THEN /\ pc' = [pc EXCEPT ![r] = "raised"]
            /\ exc' = [exc EXCEPT ![r] = ClientIsClosing]
            /\ UNCHANGED <<read_count, idling, held>>
       ELSE /\ read_count' = read_count + 1
            /\ idling' = FALSE
            /\ held' = [held EXCEPT ![r] = 1]
            /\ pc' = [pc EXCEPT ![r] = "aenter"]
            /\ UNCHANGED exc
    /\ UNCHANGED <<clientVars, conns, close_closing, connVars, closeVars,
                   req_id, req_timeout, req_raise_error, elapsed, conn, read_response_body,
                   status_code, afterClose>>
    /\ UNCHANGED notPoolVars

\* send_request resumes from sleep(0) in _ReadLock.__aenter__; when admitted
\* it checks a connection out (_get_conn) and starts asyncio.wait_for.
SendRequestEnter(r) ==
    /\ pc[r] = "aenter"
    /\ IF ReadLockRefuses
       THEN \* RuntimeError leaves send_request and, in fetch, the outer lock.
            /\ pc' = [pc EXCEPT ![r] = "raised"]
            /\ exc' = [exc EXCEPT ![r] = ClientIsClosing]
            /\ held' = [held EXCEPT ![r] = 0]
            /\ ReadLockExit(held[r])
            /\ UNCHANGED <<conns, connVars, conn, elapsed>>
       ELSE /\ read_count' = read_count + 1
            /\ idling' = FALSE
            /\ UNCHANGED <<close_closing, closeWoken>>
            /\ held' = [held EXCEPT ![r] = @ + 1]
            /\ pc' = [pc EXCEPT ![r] = "start"]
            /\ elapsed' = [elapsed EXCEPT ![r] = 0]
            /\ UNCHANGED exc
            /\ LET old == Pooled(req_id[r]) IN
               IF old # 0 /\ ~IsClosing(old)
               THEN \* pool hit
                    /\ conns' = PoolWithout(req_id[r])
                    /\ conn' = [conn EXCEPT ![r] = old]
                    /\ UNCHANGED connVars
               ELSE \* a stale entry is popped and closed; a new connection
                    \* is constructed, its idle timer armed by __init__
                    LET new == numConns + 1 IN
                    /\ conns' = PoolWithout(req_id[r])
                    /\ conn' = [conn EXCEPT ![r] = new]
                    /\ numConns' = new
                    /\ conn_id' = [conn_id EXCEPT ![new] = req_id[r]]
                    /\ idle_timer' = [idle_timer EXCEPT ![new] = TRUE]
                    /\ closing' = closing
    /\ UNCHANGED <<clientVars, pcClose, tasks, pooledAtClose, awaited, req_id, req_timeout, req_raise_error,
                   read_response_body, status_code, afterClose>>
    /\ UNCHANGED notPoolVars

\* An exception e leaves asyncio.wait_for: the except clauses of send_request
\* run, then the read-lock is left (in fetch, both levels).
Fail(r, e, legacy) ==
    LET c == conn[r] IN
    /\ closing' = [closing EXCEPT ![c] = @ \/ HandlerCloses(e, legacy)]
    /\ pc' = [pc EXCEPT ![r] = "raised"]
    /\ exc' = [exc EXCEPT ![r] = Raised(e)]
    /\ held' = [held EXCEPT ![r] = 0]
    /\ ReadLockExit(held[r])
    /\ UNCHANGED <<clientVars, conns, numConns, conn_id, pcClose, tasks, pooledAtClose, awaited,
                   req_id, req_timeout, req_raise_error, elapsed, conn, read_response_body,
                   status_code, afterClose>>
    /\ UNCHANGED notPoolVars

\* HttpConnection.send_request begins: get_ready cancels the idle timer,
\* refuses a closing connection, and connects unless the transport is open
\* (the peer may have closed it, so whether it connects is the environment's).
ConnGetReady(r, ok) ==
    /\ pc[r] = "start"
    /\ elapsed[r] < EffectiveTimeout(req_timeout[r])
    /\ idle_timer' = [idle_timer EXCEPT ![conn[r]] = FALSE]
    /\ IF IsClosing(conn[r])
       THEN Fail(r, ConnIsClosing, FALSE)
       ELSE IF ok
       THEN /\ pc' = [pc EXCEPT ![r] = "exchange"]
            /\ UNCHANGED <<clientVars, conns, lockVars, numConns, conn_id, closing,
                           closeVars, held, req_id, req_timeout, req_raise_error, elapsed,
                           conn, read_response_body, status_code, exc, afterClose,
                           notPoolVars>>
       ELSE Fail(r, "UnresolvableHost", FALSE)

\* The exchange succeeds: request written, response read.  Without
\* read_response_body the connection closes itself; the idle timer is armed.
ConnExchange(r, s, rb) ==
    LET c == conn[r] IN
    /\ pc[r] = "exchange"
    /\ elapsed[r] < EffectiveTimeout(req_timeout[r])
    /\ closing' = [closing EXCEPT ![c] = @ \/ ~rb]
    /\ idle_timer' = [idle_timer EXCEPT ![c] = TRUE]
    /\ read_response_body' = [read_response_body EXCEPT ![r] = rb]
    /\ status_code' = [status_code EXCEPT ![r] = s]
    /\ pc' = [pc EXCEPT ![r] = "responded"]
    /\ UNCHANGED <<clientVars, conns, lockVars, numConns, conn_id,
                   closeVars, held, req_id, req_timeout, req_raise_error, elapsed, conn, exc,
                   afterClose>>
    /\ UNCHANGED notPoolVars

\* The exchange raises by itself.
ConnExchangeFails(r, e) ==
    /\ pc[r] = "exchange"
    /\ elapsed[r] < EffectiveTimeout(req_timeout[r])
    /\ Fail(r, e, FALSE)
    /\ UNCHANGED idle_timer

\* Time passes inside asyncio.wait_for.
Tick(r) ==
    /\ InFlight(r)
    /\ elapsed[r] < EffectiveTimeout(req_timeout[r])
    /\ elapsed' = [elapsed EXCEPT ![r] = @ + 1]
    /\ UNCHANGED <<clientVars, conns, lockVars, connVars, closeVars, pc, held,
                   req_id, req_timeout, req_raise_error, conn, read_response_body, status_code,
                   exc, afterClose>>
    /\ UNCHANGED notPoolVars

\* The deadline of asyncio.wait_for passes: asyncio.TimeoutError.
TimeoutFires(r) ==
    /\ InFlight(r)
    /\ elapsed[r] >= EffectiveTimeout(req_timeout[r])
    /\ Fail(r, "TimeoutError", FALSE)
    /\ UNCHANGED idle_timer

\* The task is cancelled from outside while asyncio.wait_for is pending.
Cancel(r, legacy) ==
    /\ InFlight(r)
    /\ Fail(r, "CancelledError", legacy)
    /\ UNCHANGED idle_timer

\* send_request has its response: _put_conn when the body was read, then
\* HttpError or the response, by the raise_error argument ra of the call; the
\* read-lock is left.
CheckIn(r, ra) ==
    LET c == conn[r]
        put == read_response_body[r]
        closes == put /\ ~PutConnStores(c)
    IN
    /\ pc[r] = "responded"
    /\ conns' = IF put /\ PutConnStores(c) THEN Append(conns, c) ELSE conns
    /\ closing' = [closing EXCEPT ![c] = @ \/ closes]
    /\ IF EffectiveRaiseError(ra) /\ status_code[r] >= 400
       THEN /\ pc' = [pc EXCEPT ![r] = "raised"]
            /\ exc' = [exc EXCEPT ![r] = "HttpError"]
       ELSE /\ pc' = [pc EXCEPT ![r] = "returned"]
            /\ UNCHANGED exc
    /\ held' = [held EXCEPT ![r] = 0]
    /\ ReadLockExit(held[r])
    /\ req_raise_error' = [req_raise_error EXCEPT ![r] = ra]
    /\ UNCHANGED <<clientVars, numConns, conn_id, idle_timer, pcClose, tasks,
                   pooledAtClose, awaited, req_id, req_timeout, elapsed, conn,
                   read_response_body, status_code, afterClose>>
    /\ UNCHANGED notPoolVars

\* The caller is done with the outcome; the task may issue another call.
Done(r) ==
    /\ pc[r] \in {"raised", "returned"}
    /\ pc' = [pc EXCEPT ![r] = "idle"]
    /\ req_id' = [req_id EXCEPT ![r] = 0]
    /\ req_timeout' = [req_timeout EXCEPT ![r] = None]
    /\ req_raise_error' = [req_raise_error EXCEPT ![r] = None]
    /\ elapsed' = [elapsed EXCEPT ![r] = 0]
    /\ conn' = [conn EXCEPT ![r] = 0]
    /\ read_response_body' = [read_response_body EXCEPT ![r] = TRUE]
    /\ status_code' = [status_code EXCEPT ![r] = 0]
    /\ exc' = [exc EXCEPT ![r] = ""]
    /\ afterClose' = [afterClose EXCEPT ![r] = FALSE]
    /\ UNCHANGED <<clientVars, conns, lockVars, connVars, closeVars, held>>
    /\ UNCHANGED notPoolVars

\* loop.call_later(self._idle_timeout, self.close) fires.
IdleTimerFire(c) ==
    /\ idle_timer[c]
    /\ idle_timer' = [idle_timer EXCEPT ![c] = FALSE]
    /\ closing' = [closing EXCEPT ![c] = TRUE]
    /\ UNCHANGED <<clientVars, conns, lockVars, numConns, conn_id, reqVars,
                   closeVars>>
    /\ UNCHANGED notPoolVars

\* The connections the loop of close() pops: while self._conns: popitem().
ClosePopsMutant == IF conns = <<>> THEN {} ELSE {conns[Len(conns)]}
ClosePops == Range(conns)

\* The body of close() under the close-lock, up to asyncio.wait(tasks).
PopAll ==
    /\ tasks' = ClosePops
    /\ pooledAtClose' = Range(conns)
    /\ conns' = SelectSeq(conns, LAMBDA c : c \notin ClosePops)
    /\ closing' = [c \in Conns |-> closing[c] \/ c \in ClosePops]
    /\ pcClose' = IF ClosePops = {} THEN "returned" ELSE "awaiting"

\* close() is called: _CloseLock.__aenter__ sets _closing and waits for
\* _idling; when it is set already close() goes on without suspension.
CloseCall ==
    /\ pcClose = "idle"
    /\ close_closing' = TRUE
    /\ IF idling
       THEN PopAll
       ELSE /\ pcClose' = "waiting"
            /\ UNCHANGED <<conns, closing, tasks, pooledAtClose>>
    /\ UNCHANGED <<clientVars, read_count, idling, numConns, conn_id, idle_timer,
                   awaited, reqVars, closeWoken>>
    /\ UNCHANGED notPoolVars

\* close() resumes from _idling.wait().
CloseResume ==
    /\ pcClose = "waiting"
    /\ closeWoken
    /\ PopAll
    /\ UNCHANGED <<clientVars, lockVars, numConns, conn_id, idle_timer, awaited,
                   reqVars, closeWoken>>
    /\ UNCHANGED notPoolVars

\* asyncio.wait(tasks) is over: every wait_closed() has returned.
CloseReturn ==
    /\ pcClose = "awaiting"
    /\ awaited' = awaited \cup tasks
    /\ pcClose' = "returned"
    /\ UNCHANGED <<clientVars, conns, lockVars, connVars, reqVars, closeWoken,
                   tasks, pooledAtClose>>
    /\ UNCHANGED notPoolVars

Next ==
    \/ \E r \in Requests, id \in ConnIds : Fetch(r, id, None)
    \/ \E r \in Requests, id \in ConnIds : SendRequest(r, id, None)
    \/ \E r \in Requests : FetchEnter(r)
    \/ \E r \in Requests : SendRequestEnter(r)
    \/ \E r \in Requests, ok \in BOOLEAN : ConnGetReady(r, ok)
    \/ \E r \in Requests, s \in StatusCodes, rb \in BOOLEAN : ConnExchange(r, s, rb)
    \/ \E r \in Requests, e \in ExchangeErrors : ConnExchangeFails(r, e)
    \/ \E r \in Requests : Tick(r)
    \/ \E r \in Requests : TimeoutFires(r)
    \/ \E r \in Requests, legacy \in BOOLEAN : Cancel(r, legacy)
    \/ \E r \in Requests : CheckIn(r, None)
    \/ \E r \in Requests : Done(r)
    \/ \E c \in Conns : IdleTimerFire(c)
    \/ CloseCall
    \/ CloseResume
    \/ CloseReturn

Spec == Init /\ [][Next]_vars

\* One task issuing calls with every timeout and raise_error argument against
\* every client timeout and raise_error; close() is not called.
InitTimeout ==
    InitClient(1..MaxTimeout, BOOLEAN) /\ NoSend /\ NoBody /\ NoRedirect /\ NoResolver
        /\ NoConnect

NextTimeout ==
    \/ \E id \in ConnIds, t \in TimeoutArgs : Fetch(1, id, t)
    \/ \E id \in ConnIds, t \in TimeoutArgs : SendRequest(1, id, t)
    \/ FetchEnter(1)
    \/ SendRequestEnter(1)
    \/ \E ok \in BOOLEAN : ConnGetReady(1, ok)
    \/ \E s \in StatusCodes, rb \in BOOLEAN : ConnExchange(1, s, rb)
    \/ \E e \in ExchangeErrors : ConnExchangeFails(1, e)
    \/ Tick(1)
    \/ TimeoutFires(1)
    \/ \E legacy \in BOOLEAN : Cancel(1, legacy)
    \/ \E ra \in {None, <<TRUE>>, <<FALSE>>} : CheckIn(1, ra)
    \/ Done(1)
    \/ \E c \in Conns : IdleTimerFire(c)

SpecTimeout == InitTimeout /\ [][NextTimeout]_vars
\* ------------------------------------------- HttpConnection.send_request

\* Request headers the caller may pass: content-length and transfer-encoding.
HeaderInputs ==
    [cl : {None} \cup {<<n>> : n \in 0..MaxBodyLen},
     te : {None, <<"chunked">>, <<"gzip">>}]

\* Request bodies at their first byte: calc_len gives the length, or raises
\* NotImplementedError (len is None).
BodyInputs ==
    UNION {{[len |-> None, left |-> n], [len |-> <<n>>, left |-> n]} :
             n \in 0..MaxBodyLen}

\* magichttp's faults as HttpConnection.send_request maps them (183-194).
CodecFaults ==
    {"ReadAbortedError", "WriteAbortedError", "WriteAfterFinishedError",
     "ReceivedDataMalformedError", "EntityTooLargeError"}
MapFaultMutant(f) ==
    IF f \in {"ReadAbortedError", "WriteAbortedError"} THEN "ConnectionClosed"
    ELSE IF f = "ReceivedDataMalformedError" THEN "BadResponse"
    ELSE IF f = "EntityTooLargeError" THEN "ResponseEntityTooLarge"
    ELSE f
MapFault(f) ==
    IF f \in {"ReadAbortedError", "WriteAbortedError", "WriteAfterFinishedError"}
    THEN "ConnectionClosed"
    ELSE IF f = "ReceivedDataMalformedError" THEN "BadResponse"
    ELSE "ResponseEntityTooLarge"

\* headers.setdefault(name, value)
SetDefault(old, value) == IF old = None THEN value ELSE old

\* One call of HttpConnection.send_request on a connection that is not closing,
\* for every request and chunk size within the bounds.
InitSend ==
    /\ InitClient({1}, {TRUE})
    /\ NoBody
    /\ NoRedirect
    /\ NoResolver
    /\ NoConnect
    /\ send_pc = "call"
    /\ chunk_size \in 1..MaxChunkSize
    /\ headers_in \in HeaderInputs
    /\ headers = headers_in
    /\ body \in BodyInputs
    /\ body_len = None
    /\ written = [headers |-> None, bytes |-> 0, finished |-> FALSE]
    /\ send_exc = ""
    /\ send_fault = ""
    /\ send_rrb \in BOOLEAN
    /\ client_max_body_size = MaxBodySize
    /\ max_body_size \in {None} \cup {<<m>> : m \in 0..MaxBodySize}
    /\ resp_len \in 0..(MaxBodySize + 2)
    /\ body_buf = 0
    /\ aborted = FALSE
    /\ conn_closed = FALSE

\* send_request raises e.
SendRaises(e) ==
    /\ send_pc' = "raised"
    /\ send_exc' = e

\* Lines 183-194: a codec fault raised inside the try block leaves as the
\* error it is mapped to.
CodecRaises(fault) ==
    /\ SendRaises(MapFault(fault))
    /\ send_fault' = fault

\* await self.get_ready(): lookup and connect, or UnresolvableHost.
GetReady(ok) ==
    /\ send_pc = "call"
    /\ IF ok
       THEN send_pc' = "headers" /\ UNCHANGED send_exc
       ELSE SendRaises("UnresolvableHost")
    /\ UNCHANGED <<notSendVars, respVars, chunk_size, headers_in, headers, body,
                   body_len, written, send_fault>>

\* Line 136: content-length is derived only from a positive body length.
SetsContentLengthMutant(n) == n >= 0
SetsContentLength(n) == n > 0

\* Lines 129-137: without content-length, ask the body for its length; a body
\* without calc_len gets transfer-encoding: chunked and leaves body_len
\* unbound, which the comparison body_len > 0 then reads.
DeriveHeaders ==
    /\ send_pc = "headers"
    /\ IF headers.cl # None
       THEN /\ send_pc' = "write"
            /\ UNCHANGED <<headers, body_len, send_exc>>
       ELSE IF body.len = None
       THEN /\ headers' = [headers EXCEPT !.te = SetDefault(@, <<"chunked">>)]
            /\ SendRaises("UnboundLocalError")
            /\ UNCHANGED body_len
       ELSE /\ body_len' = body.len
            /\ headers' = IF SetsContentLength(body.len[1])
                          THEN [headers EXCEPT !.cl = SetDefault(@, body.len)]
                          ELSE headers
            /\ send_pc' = "write"
            /\ UNCHANGED send_exc
    /\ UNCHANGED <<notSendVars, respVars, chunk_size, headers_in, body, written,
                   send_fault>>

\* Lines 140-145: write_request hands the headers to the codec.
WriteRequest(fault) ==
    /\ send_pc = "write"
    /\ IF fault = ""
       THEN /\ written' = [written EXCEPT !.headers = <<headers>>]
            /\ send_pc' = "body"
            /\ UNCHANGED <<send_exc, send_fault>>
       ELSE /\ CodecRaises(fault)
            /\ UNCHANGED written
    /\ UNCHANGED <<notSendVars, respVars, chunk_size, headers_in, headers, body, body_len>>

Min(a, b) == IF a < b THEN a ELSE b

\* Lines 147-157: one round of the body loop; EOFError ends it and the writer
\* is finished.
WriteBody(fault) ==
    /\ send_pc = "body"
    /\ IF body.left = 0
       THEN /\ fault = ""
            /\ written' = [written EXCEPT !.finished = TRUE]
            /\ send_pc' = "response"
            /\ UNCHANGED <<body, send_exc, send_fault>>
       ELSE /\ body' = [body EXCEPT !.left = @ - Min(chunk_size, @)]
            /\ IF fault = ""
               THEN /\ written' = [written EXCEPT
                                     !.bytes = @ + Min(chunk_size, body.left)]
                    /\ UNCHANGED <<send_pc, send_exc, send_fault>>
               ELSE /\ CodecRaises(fault)
                    /\ UNCHANGED written
    /\ UNCHANGED <<notSendVars, respVars, chunk_size, headers_in, headers, body_len>>

\* http_client.py 339-343: the bound send_request passes to the connection.
EffectiveMaxBodySize(m) == IF m = None THEN client_max_body_size ELSE m[1]

\* Line 169
TooLargeMutant(buffered, m) == buffered >= m
TooLarge(buffered, m) == buffered > m

\* Line 158, 179-181: the response's initial is read; without
\* read_response_body the body is empty and the connection is closed.
ReadResponse(fault) ==
    /\ send_pc = "response"
    /\ IF fault # ""
       THEN CodecRaises(fault) /\ UNCHANGED conn_closed
       ELSE IF send_rrb
       THEN send_pc' = "read_body" /\ UNCHANGED <<send_exc, send_fault, conn_closed>>
       ELSE /\ send_pc' = "returned"
            /\ conn_closed' = TRUE
            /\ UNCHANGED <<send_exc, send_fault>>
    /\ UNCHANGED <<notSendVars, chunk_size, headers_in, headers, body, body_len,
                   written, send_rrb, client_max_body_size, max_body_size,
                   resp_len, body_buf, aborted>>

\* Lines 164-174: one round of the loop in which reader.read returns k bytes,
\* at most max_body_size + 1 - len(body_buf) of them.
ReadBody(k) ==
    /\ send_pc = "read_body"
    /\ k >= 1
    /\ k <= resp_len - body_buf
    /\ k <= EffectiveMaxBodySize(max_body_size) + 1 - body_buf
    /\ body_buf' = body_buf + k
    /\ IF TooLarge(body_buf', EffectiveMaxBodySize(max_body_size))
       THEN /\ aborted' = TRUE
            /\ SendRaises("ResponseEntityTooLarge")
       ELSE UNCHANGED <<aborted, send_pc, send_exc>>
    /\ UNCHANGED <<notSendVars, chunk_size, headers_in, headers, body, body_len,
                   written, send_rrb, client_max_body_size, max_body_size,
                   resp_len, conn_closed, send_fault>>

\* Lines 176-177 and 183-200: reader.read raises ReadFinishedError at the end
\* of the body and the response is returned, or it raises a codec fault.
ReadBodyEnds(fault) ==
    /\ send_pc = "read_body"
    /\ IF fault = ""
       THEN /\ body_buf = resp_len
            /\ send_pc' = "returned"
            /\ UNCHANGED <<send_exc, send_fault>>
       ELSE CodecRaises(fault)
    /\ UNCHANGED <<notSendVars, respVars, chunk_size, headers_in, headers, body,
                   body_len, written>>

NextSend ==
    \/ \E ok \in BOOLEAN : GetReady(ok)
    \/ DeriveHeaders
    \/ \E fault \in {"", "WriteAbortedError", "WriteAfterFinishedError"} : WriteRequest(fault)
    \/ \E fault \in {"", "WriteAbortedError", "WriteAfterFinishedError"} : WriteBody(fault)
    \/ \E fault \in {"", "ReadAbortedError", "ReceivedDataMalformedError", "EntityTooLargeError"} : ReadResponse(fault)
    \/ \E k \in 1..(MaxBodySize + 1) : ReadBody(k)
    \/ \E fault \in {"", "ReadAbortedError", "ReceivedDataMalformedError", "EntityTooLargeError"} : ReadBodyEnds(fault)

SpecSend == InitSend /\ [][NextSend]_vars

\* ------------------------------------------------------- request bodies
\* A byte of a body is named <<field, source, offset>>: the field of the
\* multipart form it belongs to (0: the body itself) and its place in the
\* buffer, the header block, the file or the closing boundary.

\* bodies.BytesRequestBody (and its subclasses UrlEncodedRequestBody,
\* JsonRequestBody, multipart._StrField): a buffer of len bytes behind a
\* BytesIO at position pos.
BytesBody(n) == [kind |-> "bytes", len |-> n, pos |-> 0, plen |-> 0, ptr |-> 0]
\* bodies._EmptyRequestBody
EmptyBody == [kind |-> "empty", len |-> 0, pos |-> 0, plen |-> 0, ptr |-> 0]
\* multipart._FileField: a header block of plen bytes read through _ptr, then
\* the file of len bytes read through the file's own position pos.
FileField(p, n) == [kind |-> "file", len |-> n, pos |-> 0, plen |-> p, ptr |-> 0]

\* The fields MultipartRequestBody.__init__ builds from the form.
FieldInputs ==
    {BytesBody(n) : n \in 1..MaxPartLen}
        \cup {FileField(p, n) : p \in 1..MaxPrefixLen, n \in 0..MaxPartLen}

\* multipart.MultipartRequestBody.__init__
MultipartBody(fields, affix) ==
    [kind |-> "multipart", fields |-> fields, affix |-> affix, ptr |-> 0,
     body_len |-> None]

SeqsUpTo(S, n) == UNION {[1..k -> S] : k \in 0..n}

RequestBodyInputs ==
    {BytesBody(n) : n \in 0..MaxPartLen}
        \cup {EmptyBody}
        \cup {MultipartBody(fs, a) : fs \in SeqsUpTo(FieldInputs, MaxFields),
                                     a \in 1..MaxAffixLen}

\* k bytes of one source, from offset from + 1 on.
Bytes(i, src, from, k) == [j \in 1..k |-> <<i, src, from + j>>]

Raise(b) == [body |-> b, data |-> <<>>, eof |-> TRUE]
Return(b, data) == [body |-> b, data |-> data, eof |-> FALSE]

\* BytesRequestBody.read, _EmptyRequestBody.read and _FileField.read of the
\* body b that is field i.
LeafRead(b, i, n) ==
    IF b.kind = "empty" THEN Raise(b)
    ELSE IF b.kind = "bytes"
    THEN LET k == Min(n, b.len - b.pos) IN
         IF k = 0 THEN Raise(b)
         ELSE Return([b EXCEPT !.pos = @ + k], Bytes(i, "buf", b.pos, k))
    ELSE IF b.ptr < b.plen
    THEN Return([b EXCEPT !.ptr = @ + n],
                Bytes(i, "prefix", b.ptr, Min(n, b.plen - b.ptr)))
    ELSE LET k == Min(n, b.len - b.pos) IN
         IF k = 0 THEN Raise(b)
         ELSE Return([b EXCEPT !.pos = @ + k], Bytes(i, "file", b.pos, k))

\* calc_len of the three: the file field seeks its file to the end to
\* measure it.
LeafCalcLen(b) ==
    IF b.kind = "file"
    THEN [body |-> [b EXCEPT !.pos = b.len], value |-> b.plen + b.len]
    ELSE [body |-> b, value |-> b.len]

\* seek_front of the three: the file field resets _ptr only.
LeafSeekFront(b) ==
    IF b.kind = "bytes" THEN [b EXCEPT !.pos = 0]
    ELSE IF b.kind = "file" THEN [b EXCEPT !.ptr = 0]
    ELSE b

\* MultipartRequestBody.read, lines 214-222: the closing boundary, with
\* _ptr = -1 - (bytes of it already returned).
AffixRead(b, n) ==
    LET affix_pos == (0 - b.ptr) - 1
        k == Min(n, b.affix - affix_pos) IN
    IF affix_pos >= b.affix THEN Raise(b)
    ELSE Return([b EXCEPT !.ptr = @ - k], Bytes(0, "affix", affix_pos, k))

\* MultipartRequestBody.read, lines 198-212: the first field from _ptr on
\* that still has bytes.
RECURSIVE MultipartRead(_, _)
MultipartRead(b, n) ==
    IF b.ptr < 0 THEN AffixRead(b, n)
    ELSE IF b.ptr >= Len(b.fields) THEN AffixRead([b EXCEPT !.ptr = -1], n)
    ELSE LET r == LeafRead(b.fields[b.ptr + 1], b.ptr + 1, n) IN
         IF r.eof THEN MultipartRead([b EXCEPT !.ptr = @ + 1], n)
         ELSE Return([b EXCEPT !.fields[b.ptr + 1] = r.body], r.data)

RECURSIVE SumLen(_, _)
SumLen(fields, k) ==
    IF k = 0 THEN 0 ELSE SumLen(fields, k - 1) + LeafCalcLen(fields[k]).value

\* MultipartRequestBody.calc_len: computed once from the fields, then cached.
MultipartCalcLen(b) ==
    IF b.body_len # None THEN [body |-> b, value |-> b.body_len[1]]
    ELSE LET total == SumLen(b.fields, Len(b.fields)) + b.affix IN
         [body |-> [b EXCEPT
                      !.fields = [k \in 1..Len(b.fields) |->
                                     LeafCalcLen(b.fields[k]).body],
                      !.body_len = <<total>>],
          value |-> total]

\* MultipartRequestBody.seek_front
MultipartSeekFront(b) ==
    [b EXCEPT !.ptr = 0,
              !.fields = [k \in 1..Len(b.fields) |-> LeafSeekFront(b.fields[k])]]

BodyRead(b, n) ==
    IF b.kind = "multipart" THEN MultipartRead(b, n) ELSE LeafRead(b, 0, n)
BodyCalcLen(b) ==
    IF b.kind = "multipart" THEN MultipartCalcLen(b) ELSE LeafCalcLen(b)
BodySeekFront(b) ==
    IF b.kind = "multipart" THEN MultipartSeekFront(b) ELSE LeafSeekFront(b)

\* One body of every shape, at its first byte, and a caller that reads it to
\* EOFError, asks for its length at any point, and rewinds it once at the end.
InitBody ==
    /\ InitClient({1}, {TRUE})
    /\ NoSend
    /\ NoRedirect
    /\ NoResolver
    /\ NoConnect
    /\ rbody \in RequestBodyInputs
    /\ pass = 1
    /\ out = <<>>
    /\ first = <<>>
    /\ at_eof = FALSE
    /\ len_seen = None

\* await body.read(n), also after an earlier read has raised EOFError
Read(n) ==
    /\ LET r == BodyRead(rbody, n) IN
         /\ rbody' = r.body
         /\ at_eof' = r.eof
         /\ out' = out \o r.data
    /\ UNCHANGED <<notBodyVars, pass, first, len_seen>>

\* await body.calc_len()
CalcLen ==
    /\ LET r == BodyCalcLen(rbody) IN
         /\ rbody' = r.body
         /\ len_seen' = <<r.value, Len(out)>>
    /\ UNCHANGED <<notBodyVars, pass, out, first, at_eof>>

\* await body.seek_front(), after the first pass has ended
SeekFront ==
    /\ at_eof
    /\ pass = 1
    /\ rbody' = BodySeekFront(rbody)
    /\ pass' = 2
    /\ first' = out
    /\ out' = <<>>
    /\ at_eof' = FALSE
    /\ len_seen' = None
    /\ UNCHANGED notBodyVars

NextBody ==
    \/ \E n \in 1..MaxReadSize : Read(n)
    \/ CalcLen
    \/ SeekFront

SpecBody == InitBody /\ [][NextBody]_vars

\* ----------------------------------------- HttpClient._handle_redirection
\* A URL is the sequence of its tokens: a scheme with its colon, slashes,
\* names.  http://a/p is <<"http:", "/", "/", "a", "/", "p">>.

Schemes == {"http", "https"}
Authorities == {"a", "b"}
Methods == {"GET", "POST"}
RedirectStatuses == {301, 302, 303, 307, 308}

SchemeToken(scheme) == IF scheme = "http" THEN "http:" ELSE "https:"

AbsoluteUri(token, authority) == <<token, "/", "/", authority, "/", "p">>

\* The location headers a server may send (None: no location header).
Locations ==
    {AbsoluteUri(SchemeToken(s), h) : s \in Schemes, h \in Authorities}
        \cup {AbsoluteUri("ftp:", "a"), <<"/", "p">>, <<"p">>}

Responses ==
    {[status |-> 200, location |-> None]}
        \cup {[status |-> st, location |-> l] :
                 st \in RedirectStatuses, l \in {None} \cup {<<l>> : l \in Locations}}

\* _ABSOLUTE_PATH_RE = re.compile("^(http:/|https:/)?/")
MatchesAbsolutePathReMutant(location) == Len(location) >= 1
MatchesAbsolutePathRe(location) ==
    \/ /\ Len(location) >= 3
       /\ location[1] \in {"http:", "https:"}
       /\ location[2] = "/"
       /\ location[3] = "/"
    \/ /\ Len(location) >= 1
       /\ location[1] = "/"

\* location.startswith("/")
StartsWithSlash(location) == Len(location) >= 1 /\ location[1] = "/"

\* scheme.value.lower() + "://" + authority + location
WithOrigin(req, location) ==
    <<SchemeToken(req.scheme), "/", "/", req.authority>> \o location

\* urllib.parse.urlsplit(url, scheme="http") as fetch uses it: the scheme
\* and the netloc.
UrlSplit(url) ==
    IF Len(url) >= 4 /\ url[1] \in {"http:", "https:"} /\ url[2] = "/" /\ url[3] = "/"
    THEN [scheme |-> IF url[1] = "http:" THEN "http" ELSE "https",
          netloc |-> url[4]]
    ELSE [scheme |-> "http", netloc |-> ""]

\* Lines 241-245
EffectiveMaxRedirectsMutant(m) == client_max_redirects
EffectiveMaxRedirects(m) == IF m = None THEN client_max_redirects ELSE m[1]

\* Line 247 and the else of the for loop: the iteration that is the last.
LastIterationMutant(i, n) == i + 1 >= n
LastIteration(i, n) == i = n

\* Line 282: which redirects are rewritten to a GET.
RewritesToGetMutant(status) == status < 303
RewritesToGet(status) == status < 304

\* The requests a caller may pass: the body is absent ("empty", the shared
\* _EMPTY_REQUEST_BODY), supports seek_front ("bytes") or does not ("stream").
RequestInputs ==
    [method : Methods, scheme : Schemes, authority : Authorities,
     headers : {{}, {"x-custom"}}, body : {"empty", "bytes", "stream"},
     body_pos : {"front"}]

\* One call of send_request with follow_redirection=True.
InitRedirect ==
    /\ InitClient({1}, {TRUE})
    /\ NoSend
    /\ NoBody
    /\ NoResolver
    /\ NoConnect
    /\ redir_pc = "send"
    /\ client_max_redirects \in {0, MaxRedirects}
    /\ max_redirects \in {None} \cup {<<n>> : n \in 0..MaxRedirects}
    /\ loop_i = 0
    /\ request \in RequestInputs
    /\ next_request = request
    /\ prev_request = None
    /\ response = None
    /\ sent_count = 0
    /\ body_pos = "front"
    /\ redir_exc = ""
    /\ hop_max_body_size = None
    /\ hop_body_len = 0

RedirRaises(e) ==
    /\ redir_pc' = "raised"
    /\ redir_exc' = e

\* Lines 248-256 and 298-306: the max_body_size argument of the call that
\* sends the next request: send_request gets the caller's, fetch gets none.
HopMaxBodySize == IF loop_i = 0 THEN max_body_size ELSE None

\* Lines 248-256 and 298-314: the request goes out through send_request (the
\* first) or fetch (the others) and its response, with a body of n bytes that
\* is within the bound of that call, arrives; a response that is no redirect
\* is returned, a redirect ends the loop when i has reached _max_redirects.
SendAndReceive(resp, n) ==
    /\ redir_pc = "send"
    /\ ~TooLarge(n, EffectiveMaxBodySize(HopMaxBodySize))
    /\ hop_max_body_size' = HopMaxBodySize
    /\ hop_body_len' = n
    /\ sent_count' = sent_count + 1
    /\ prev_request' = <<next_request>>
    /\ response' = <<resp>>
    /\ body_pos' = IF next_request.body = "empty" THEN body_pos ELSE "end"
    /\ IF resp.status \notin RedirectStatuses
       THEN redir_pc' = "returned" /\ UNCHANGED <<loop_i, redir_exc>>
       ELSE IF LastIteration(loop_i, EffectiveMaxRedirects(max_redirects))
       THEN RedirRaises("TooManyRedirects") /\ UNCHANGED loop_i
       ELSE /\ loop_i' = loop_i + 1
            /\ redir_pc' = "follow"
            /\ UNCHANGED redir_exc
    /\ UNCHANGED <<notRedirVars, client_max_redirects, max_redirects, request,
                   next_request>>

\* The request goes out and the body of its response, of n bytes, is beyond
\* the bound of the call that sent it: ResponseEntityTooLarge leaves the driver.
HopTooLarge(n) ==
    /\ redir_pc = "send"
    /\ TooLarge(n, EffectiveMaxBodySize(HopMaxBodySize))
    /\ hop_max_body_size' = HopMaxBodySize
    /\ hop_body_len' = n
    /\ sent_count' = sent_count + 1
    /\ prev_request' = <<next_request>>
    /\ response' = None
    /\ RedirRaises("ResponseEntityTooLarge")
    /\ UNCHANGED <<notRedirVars, client_max_redirects, max_redirects, loop_i,
                   request, next_request, body_pos>>

\* The request goes out and send_request or fetch raises.
SendFails(e) ==
    /\ redir_pc = "send"
    /\ hop_max_body_size' = HopMaxBodySize
    /\ hop_body_len' = 0
    /\ sent_count' = sent_count + 1
    /\ prev_request' = <<next_request>>
    /\ response' = None
    /\ RedirRaises(e)
    /\ UNCHANGED <<notRedirVars, client_max_redirects, max_redirects, loop_i,
                   request, next_request, body_pos>>

\* Lines 259-296: the next request is made from the response's location and
\* status, and from __request.
Follow ==
    /\ redir_pc = "follow"
    /\ LET resp == response[1] IN
       IF resp.location = None
       THEN RedirRaises("BadResponse") /\ UNCHANGED <<next_request, body_pos>>
       ELSE IF ~MatchesAbsolutePathRe(resp.location[1])
       THEN RedirRaises("FailedRedirection") /\ UNCHANGED <<next_request, body_pos>>
       ELSE LET location == IF StartsWithSlash(resp.location[1])
                            THEN WithOrigin(request, resp.location[1])
                            ELSE resp.location[1]
                url == UrlSplit(location)
            IN  IF RewritesToGet(resp.status)
                THEN /\ next_request' =
                          [method |-> "GET", scheme |-> url.scheme,
                           authority |-> url.netloc, headers |-> {},
                           body |-> "empty", body_pos |-> "front"]
                     /\ redir_pc' = "send"
                     /\ UNCHANGED <<body_pos, redir_exc>>
                ELSE IF request.body = "stream"
                THEN RedirRaises("FailedRedirection")
                     /\ UNCHANGED <<next_request, body_pos>>
                ELSE /\ body_pos' = "front"
                     /\ next_request' =
                          [method |-> request.method, scheme |-> url.scheme,
                           authority |-> url.netloc, headers |-> request.headers,
                           body |-> request.body, body_pos |-> "front"]
                     /\ redir_pc' = "send"
                     /\ UNCHANGED redir_exc
    /\ UNCHANGED <<notRedirVars, client_max_redirects, max_redirects, loop_i,
                   request, prev_request, response, sent_count,
                   hop_max_body_size, hop_body_len>>

NextRedirect ==
    \/ \E resp \in Responses : SendAndReceive(resp, 0)
    \/ \E e \in {"RequestTimeout", "ConnectionClosed"} : SendFails(e)
    \/ Follow

SpecRedirect == InitRedirect /\ [][NextRedirect]_vars

\* One call of send_request with follow_redirection=True and read_response_body
\* against a client whose max_body_size is MaxBodySize, for every per-call
\* max_body_size and every length of the bodies the servers answer with.
InitHops ==
    /\ InitClient({1}, {TRUE})
    /\ NoBody
    /\ NoResolver
    /\ NoConnect
    /\ send_pc = "off"
    /\ chunk_size = 1
    /\ headers_in = [cl |-> None, te |-> None]
    /\ headers = [cl |-> None, te |-> None]
    /\ body = [len |-> None, left |-> 0]
    /\ body_len = None
    /\ written = [headers |-> None, bytes |-> 0, finished |-> FALSE]
    /\ send_exc = ""
    /\ send_fault = ""
    /\ send_rrb = TRUE
    /\ client_max_body_size = MaxBodySize
    /\ max_body_size \in {None} \cup {<<m>> : m \in 0..MaxBodySize}
    /\ resp_len = 0
    /\ body_buf = 0
    /\ aborted = FALSE
    /\ conn_closed = FALSE
    /\ redir_pc = "send"
    /\ client_max_redirects = MaxRedirects
    /\ max_redirects = None
    /\ loop_i = 0
    /\ request \in {q \in RequestInputs :
                        q.scheme = "http" /\ q.authority = "a" /\ q.headers = {}}
    /\ next_request = request
    /\ prev_request = None
    /\ response = None
    /\ sent_count = 0
    /\ body_pos = "front"
    /\ redir_exc = ""
    /\ hop_max_body_size = None
    /\ hop_body_len = 0

NextHops ==
    \/ \E resp \in Responses, n \in 0..(MaxBodySize + 1) : SendAndReceive(resp, n)
    \/ \E n \in 0..(MaxBodySize + 1) : HopTooLarge(n)
    \/ \E e \in {"RequestTimeout", "ConnectionClosed"} : SendFails(e)
    \/ Follow

SpecHops == InitHops /\ [][NextHops]_vars

\* ------------------------------------------------------------ resolvers
Keys == 1..NumKeys
Lookups == 1..NumLookups

\* ResolvedResult.__init__: the record set, the ttl and the time of creation.
ResolvedResultMutant(results, ttl) ==
    [results |-> results, ttl |-> ttl, resolved_at |-> 0]
ResolvedResult(results, ttl) ==
    [results |-> results, ttl |-> ttl, resolved_at |-> now]

\* ResolvedResult.expired at time t
ExpiredMutant(r, t) == IF r.ttl < 0 THEN FALSE ELSE t - r.ttl >= r.resolved_at
Expired(r, t) == IF r.ttl < 0 THEN FALSE ELSE t - r.ttl > r.resolved_at

\* What a lookup_now is answered.  The hosts file and getaddrinfo give
\* addresses without TTL; the A and the AAAA query of the async and the
\* DNS-over-HTTPS resolver each fail (None) or give answers with these TTLs.
TtlSets == {<<ts>> : ts \in (SUBSET (0..MaxTtl)) \ {{}}}
DnsAnswers ==
    {ans \in [source : {"dns"}, a : {None} \cup TtlSets, aaaa : {None} \cup TtlSets] :
        ans.a # None \/ ans.aaaa # None}
Answers(kind) ==
    IF kind = "hosts" THEN {[source |-> "hosts", a |-> None, aaaa |-> None]}
    ELSE IF kind = "system" THEN {[source |-> "system", a |-> None, aaaa |-> None]}
    ELSE {[source |-> "hosts", a |-> None, aaaa |-> None]} \cup DnsAnswers

AllAnswers == Answers("hosts") \cup Answers("system") \cup Answers("async")

\* The TTLs of the answers of the queries that succeeded.
AnswerTtls(ans) ==
    (IF ans.a = None THEN {} ELSE ans.a[1])
        \cup (IF ans.aaaa = None THEN {} ELSE ans.aaaa[1])

\* ttl after the loops of async_.py 98-107 and https.py 113-118, 161-167: the
\* smallest TTL seen.
SmallestTtl(ttls) == CHOOSE t \in ttls : \A u \in ttls : t <= u

\* async_.py 109-110, https.py 169-170
FloorTtlMutant(ttl) == ttl
FloorTtl(ttl) == IF ttl < min_ttl THEN min_ttl ELSE ttl

\* The ttl lookup_now gives its result: min_ttl from the hosts file and from
\* getaddrinfo, the floored smallest TTL from DNS.  self._respect_remote_ttl
\* is read nowhere.
LookupNowTtl(ans) ==
    IF ans.source = "dns" THEN FloorTtl(SmallestTtl(AnswerTtls(ans))) ELSE min_ttl

\* The addresses of the result, named by where they come from.
LookupNowResults(ans) ==
    IF ans.source = "dns"
    THEN (IF ans.a = None THEN {} ELSE {"A"})
             \cup (IF ans.aaaa = None THEN {} ELSE {"AAAA"})
    ELSE {ans.source}

\* A resolver of any kind and option, nothing cached or overridden.
InitResolverOf(kinds) ==
    /\ resolver_kind \in kinds
    /\ min_ttl \in 0..MaxMinTtl
    /\ respect_remote_ttl \in BOOLEAN
    /\ now = 0
    /\ cache = [k \in Keys |-> None]
    /\ overrides = [k \in Keys |-> None]
    /\ lk_pc = [t \in Lookups |-> "idle"]
    /\ lk_key = [t \in Lookups |-> 0]
    /\ lk_result = [t \in Lookups |-> None]
    /\ lk_calls = [t \in Lookups |-> 0]
    /\ lk_answers = [t \in Lookups |-> None]
    /\ probe = None

InitResolver ==
    /\ InitClient({1}, {TRUE})
    /\ NoSend
    /\ NoBody
    /\ NoRedirect
    /\ NoConnect
    /\ InitResolverOf({"system"})

\* BaseResolver.override
Override(k) ==
    /\ overrides' = [overrides EXCEPT ![k] = <<ResolvedResult({"manual"}, -1)>>]
    /\ UNCHANGED <<notResolverVars, resolver_kind, min_ttl, respect_remote_ttl,
                   now, cache, lk_pc, lk_key, lk_result, lk_calls, lk_answers,
                   probe>>

\* BaseResolver.remove_override
RemoveOverride(k) ==
    /\ overrides[k] # None
    /\ overrides' = [overrides EXCEPT ![k] = None]
    /\ UNCHANGED <<notResolverVars, resolver_kind, min_ttl, respect_remote_ttl,
                   now, cache, lk_pc, lk_key, lk_result, lk_calls, lk_answers,
                   probe>>

\* Lines 226-229: the override of the key, when there is one, is the answer.
OverriddenMutant(k) == overrides[k] # None /\ cache[k] = None
Overridden(k) == overrides[k] # None

\* BaseResolver.lookup up to its return or to its await of lookup_now.
Lookup(t, k) ==
    /\ lk_pc[t] = "idle"
    /\ lk_key' = [lk_key EXCEPT ![t] = k]
    /\ IF Overridden(k)
       THEN /\ lk_pc' = [lk_pc EXCEPT ![t] = "returned"]
            /\ lk_result' = [lk_result EXCEPT ![t] = overrides[k]]
            /\ UNCHANGED <<cache, lk_calls>>
       ELSE IF cache[k] # None /\ ~Expired(cache[k][1], now)
       THEN /\ lk_pc' = [lk_pc EXCEPT ![t] = "returned"]
            /\ lk_result' = [lk_result EXCEPT ![t] = cache[k]]
            /\ UNCHANGED <<cache, lk_calls>>
       ELSE /\ cache' = [cache EXCEPT ![k] = None]
            /\ lk_pc' = [lk_pc EXCEPT ![t] = "lookup_now"]
            /\ lk_calls' = [lk_calls EXCEPT ![t] = @ + 1]
            /\ UNCHANGED lk_result
    /\ UNCHANGED <<notResolverVars, resolver_kind, min_ttl, respect_remote_ttl,
                   now, overrides, lk_answers, probe>>

\* lookup_now returns: the fresh result is cached and returned.
LookupNowReturns(t, ans) ==
    /\ lk_pc[t] = "lookup_now"
    /\ ans \in Answers(resolver_kind)
    /\ LET fresh == <<ResolvedResult(LookupNowResults(ans), LookupNowTtl(ans))>> IN
         /\ cache' = [cache EXCEPT ![lk_key[t]] = fresh]
         /\ lk_result' = [lk_result EXCEPT ![t] = fresh]
    /\ lk_answers' = [lk_answers EXCEPT ![t] = <<ans>>]
    /\ lk_pc' = [lk_pc EXCEPT ![t] = "returned"]
    /\ UNCHANGED <<notResolverVars, resolver_kind, min_ttl, respect_remote_ttl,
                   now, overrides, lk_key, lk_calls, probe>>

\* lookup_now raises UnresolvableHost: nothing is cached.
LookupNowFails(t) ==
    /\ lk_pc[t] = "lookup_now"
    /\ lk_pc' = [lk_pc EXCEPT ![t] = "raised"]
    /\ UNCHANGED <<notResolverVars, resolver_kind, min_ttl, respect_remote_ttl,
                   now, cache, overrides, lk_key, lk_result, lk_calls,
                   lk_answers, probe>>

\* The caller of a lookup that returned asks result.expired().
AskExpired(t) ==
    /\ lk_pc[t] = "returned"
    /\ probe' = <<lk_result[t][1], now, Expired(lk_result[t][1], now)>>
    /\ UNCHANGED <<notResolverVars, resolver_kind, min_ttl, respect_remote_ttl,
                   now, cache, overrides, lk_pc, lk_key, lk_result, lk_calls,
                   lk_answers>>

\* The task is done with its lookup and may begin another.
LookupDone(t) ==
    /\ lk_pc[t] \in {"returned", "raised"}
    /\ lk_pc' = [lk_pc EXCEPT ![t] = "idle"]
    /\ lk_key' = [lk_key EXCEPT ![t] = 0]
    /\ lk_result' = [lk_result EXCEPT ![t] = None]
    /\ lk_calls' = [lk_calls EXCEPT ![t] = 0]
    /\ lk_answers' = [lk_answers EXCEPT ![t] = None]
    /\ UNCHANGED <<notResolverVars, resolver_kind, min_ttl, respect_remote_ttl,
                   now, cache, overrides, probe>>

\* time.monotonic() advances.
Clock ==
    /\ now < MaxTime
    /\ now' = now + 1
    /\ UNCHANGED <<notResolverVars, resolver_kind, min_ttl, respect_remote_ttl,
                   cache, overrides, lk_pc, lk_key, lk_result, lk_calls,
                   lk_answers, probe>>

NextResolver ==
    \/ \E k \in Keys : Override(k)
    \/ \E k \in Keys : RemoveOverride(k)
    \/ \E t \in Lookups, k \in Keys : Lookup(t, k)
    \/ \E t \in Lookups, ans \in AllAnswers : LookupNowReturns(t, ans)
    \/ \E t \in Lookups : LookupNowFails(t)
    \/ \E t \in Lookups : LookupDone(t)
    \/ Clock

SpecResolver == InitResolver /\ [][NextResolver]_vars

\* lookup_now of every kind of resolver, through one lookup at a time of one
\* key, whose caller asks the results whether they have expired.
InitTtl ==
    /\ InitClient({1}, {TRUE})
    /\ NoSend
    /\ NoBody
    /\ NoRedirect
    /\ NoConnect
    /\ InitResolverOf({"hosts", "system", "async", "https"})

NextTtl ==
    \/ Lookup(1, 1)
    \/ \E ans \in AllAnswers : LookupNowReturns(1, ans)
    \/ LookupNowFails(1)
    \/ LookupDone(1)
    \/ Override(1)
    \/ RemoveOverride(1)
    \/ AskExpired(1)
    \/ Clock

SpecTtl == InitTtl /\ [][NextTtl]_vars

\* ------------------------------------------- ResolvedResult.connect_fastest

Records == 1..NumRecords

\* A connect attempt is over: it returned, raised or was cancelled.
Finished == {"ok", "failed", "cancelled"}

\* One call of connect_fastest on a result with any record set, any of the
\* records connectable, and any of them or none cached as the fastest.
InitConnect ==
    /\ InitClient({1}, {TRUE})
    /\ NoSend
    /\ NoBody
    /\ NoRedirect
    /\ NoResolver
    /\ cf_pc = "call"
    /\ cf_results \in SUBSET Records
    /\ cf_connectable \in SUBSET cf_results
    /\ cf_fastest \in {0} \cup cf_results
    /\ cf_direct = "none"
    /\ cf_task = [r \in Records |-> "none"]
    /\ cf_pending = {}
    /\ cf_after = ""
    /\ cf_ret = 0
    /\ cf_exc = ""

\* Lines 117-148: one task per record is created and pending is all of them;
\* without records the loop and the cleanup are skipped and UnresolvableHost
\* is raised, otherwise the caller suspends in asyncio.wait.
StartRace ==
    /\ cf_task' = [r \in Records |-> IF r \in cf_results THEN "pending" ELSE "none"]
    /\ cf_pending' = cf_results
    /\ IF cf_results = {}
       THEN cf_pc' = "raised" /\ cf_exc' = "UnresolvableHost"
       ELSE cf_pc' = "race" /\ UNCHANGED cf_exc

\* connect_fastest is called: with a cached record the connection to it is
\* awaited, without one the race begins.
ConnectFastest ==
    /\ cf_pc = "call"
    /\ IF cf_fastest # 0
       THEN /\ cf_pc' = "fastest"
            /\ cf_direct' = "pending"
            /\ UNCHANGED <<cf_task, cf_pending, cf_exc>>
       ELSE StartRace /\ UNCHANGED cf_direct
    /\ UNCHANGED <<notConnectVars, cf_results, cf_connectable, cf_fastest,
                   cf_after, cf_ret>>

\* Line 114: what self._fastest is after the attempt to it has failed.
FastestAfterFailureMutant == cf_fastest
FastestAfterFailure == 0

\* Lines 101-115: the attempt to the cached record ends; its transport is
\* returned, or the cached record is cleared and the race begins.
DirectCompletes ==
    /\ cf_pc = "fastest"
    /\ IF cf_fastest \in cf_connectable
       THEN /\ cf_direct' = "ok"
            /\ cf_pc' = "returned"
            /\ cf_ret' = cf_fastest
            /\ UNCHANGED <<cf_fastest, cf_task, cf_pending, cf_exc>>
       ELSE /\ cf_direct' = "failed"
            /\ cf_fastest' = FastestAfterFailure
            /\ StartRace
            /\ UNCHANGED cf_ret
    /\ UNCHANGED <<notConnectVars, cf_results, cf_connectable, cf_after>>

\* The connect task of record r ends by itself.
TaskCompletes(r) ==
    /\ cf_task[r] = "pending"
    /\ cf_task' = [cf_task EXCEPT ![r] = IF r \in cf_connectable THEN "ok" ELSE "failed"]
    /\ UNCHANGED <<notConnectVars, cf_pc, cf_results, cf_connectable, cf_fastest,
                   cf_direct, cf_pending, cf_after, cf_ret, cf_exc>>

\* read_result(): a record whose task has returned; the first of them in the
\* order of the dict, which is the iteration order of the set of records.
ReadResult == {r \in cf_results : cf_task[r] = "ok"}

\* Line 151: while len(pending) > 0
RaceOverMutant(p) == TRUE
RaceOver(p) == p = {}

\* Lines 161-169, the finally clause up to its await: every task is cancelled,
\* which is a request to those that are still pending.
CancelAll ==
    cf_task' = [r \in Records |-> IF cf_task[r] = "pending" THEN "cancelling"
                                   ELSE cf_task[r]]

\* Lines 151-160: asyncio.wait returns with at least one task of pending done;
\* a task that returned ends the loop with its record and transport, no
\* pending task left ends it without, otherwise the caller waits again.
RaceResumes(w) ==
    /\ cf_pc = "race"
    /\ \E r \in cf_pending : cf_task[r] \in Finished
    /\ cf_pending' = {r \in cf_pending : cf_task[r] = "pending"}
    /\ IF ReadResult # {}
       THEN /\ w \in ReadResult
            /\ cf_fastest' = w
            /\ cf_ret' = w
            /\ cf_after' = "return"
            /\ CancelAll
            /\ cf_pc' = "cleanup"
       ELSE /\ w = 0
            /\ UNCHANGED <<cf_fastest, cf_ret>>
            /\ IF RaceOver(cf_pending')
               THEN /\ cf_after' = "UnresolvableHost"
                    /\ CancelAll
                    /\ cf_pc' = "cleanup"
               ELSE UNCHANGED <<cf_after, cf_task, cf_pc>>
    /\ UNCHANGED <<notConnectVars, cf_results, cf_connectable, cf_direct, cf_exc>>

\* A task whose cancellation was requested ends with CancelledError.
TaskCancelled(r) ==
    /\ cf_task[r] = "cancelling"
    /\ cf_task' = [cf_task EXCEPT ![r] = "cancelled"]
    /\ UNCHANGED <<notConnectVars, cf_pc, cf_results, cf_connectable, cf_fastest,
                   cf_direct, cf_pending, cf_after, cf_ret, cf_exc>>

\* Lines 167-169: asyncio.wait(..., return_when=ALL_COMPLETED) is over.
AllDoneMutant == TRUE
AllDone == \A r \in cf_results : cf_task[r] \in Finished

\* The finally clause is through: the return or the exception goes on.
CleanupDone ==
    /\ cf_pc = "cleanup"
    /\ AllDone
    /\ IF cf_after = "return"
       THEN cf_pc' = "returned" /\ UNCHANGED <<cf_exc, cf_ret>>
       ELSE cf_pc' = "raised" /\ cf_exc' = cf_after /\ cf_ret' = 0
    /\ UNCHANGED <<notConnectVars, cf_results, cf_connectable, cf_fastest,
                   cf_direct, cf_task, cf_pending, cf_after>>

\* The caller is cancelled (by its own caller or by the asyncio.wait_for of
\* HttpClient.send_request) while it awaits the attempt to the cached record:
\* the attempt is cancelled with it (lines 110-111).
CancelDirect ==
    /\ cf_pc = "fastest"
    /\ cf_direct' = "cancelled"
    /\ cf_pc' = "raised"
    /\ cf_exc' = "CancelledError"
    /\ UNCHANGED <<notConnectVars, cf_results, cf_connectable, cf_fastest,
                   cf_task, cf_pending, cf_after, cf_ret>>

\* The caller is cancelled while it awaits the race: CancelledError enters the
\* finally clause.
CancelRace ==
    /\ cf_pc = "race"
    /\ cf_after' = "CancelledError"
    /\ CancelAll
    /\ cf_pc' = "cleanup"
    /\ UNCHANGED <<notConnectVars, cf_results, cf_connectable, cf_fastest,
                   cf_direct, cf_pending, cf_ret, cf_exc>>

\* The caller is cancelled while it awaits in the finally clause.  The steps
\* of the tasks it has cancelled were scheduled before its own (call_soon runs
\* callbacks in the order of their registration), so they have ended when
\* CancelledError leaves the await.
CancelCleanup ==
    /\ cf_pc = "cleanup"
    /\ AllDone
    /\ cf_pc' = "raised"
    /\ cf_exc' = "CancelledError"
    /\ cf_ret' = 0
    /\ UNCHANGED <<notConnectVars, cf_results, cf_connectable, cf_fastest,
                   cf_direct, cf_task, cf_pending, cf_after>>

NextConnect ==
    \/ ConnectFastest
    \/ DirectCompletes
    \/ \E r \in Records : TaskCompletes(r)
    \/ \E w \in {0} \cup Records : RaceResumes(w)
    \/ \E r \in Records : TaskCancelled(r)
    \/ CleanupDone
    \/ CancelDirect
    \/ CancelRace
    \/ CancelCleanup

SpecConnect == InitConnect /\ [][NextConnect]_vars

\* ---------------------------------------------------------------- the claims

Pool == Range(conns)

\* C1: whenever send_request ends by raising, for any reason, the connection
\* it checked out has been closed and is not in the pool.
C1_AnyRaiseClosesConnection ==
    \A r \in Requests :
        (pc[r] = "raised" /\ conn[r] # 0) =>
            (closing[conn[r]] /\ conn[r] \notin Pool)

\* C2: a request cancelled from outside while conn.send_request is in flight
\* closes its connection and never returns it to the pool.
C2_CancelClosesConnection ==
    \A r \in Requests :
        (pc[r] = "raised" /\ exc[r] = "CancelledError") =>
            (closing[conn[r]] /\ conn[r] \notin Pool)

\* The deadline the claim names: the per-call value, else the client default.
Deadline(r) == IF req_timeout[r] = None THEN client_timeout ELSE req_timeout[r][1]

\* C3: a call still in flight when its effective timeout has elapsed can only
\* end (outside cancellation apart) by raising RequestTimeout, with the
\* connection closed and not in the pool.
C3_TimeoutClosesAndRaises ==
    [][\A r \in Requests :
          (InFlight(r) /\ elapsed[r] >= Deadline(r) /\ pc'[r] # pc[r]) =>
              \/ exc'[r] = "CancelledError"
              \/ /\ pc'[r] = "raised"
                 /\ exc'[r] = "RequestTimeout"
                 /\ closing'[conn[r]]
                 /\ conn[r] \notin Range(conns')]_vars

\* C3 witness: a call with a per-call timeout that differs from the client's
\* has timed out.
C3_Witness ==
    \E r \in Requests :
        /\ pc[r] = "raised"
        /\ exc[r] = "RequestTimeout"
        /\ req_timeout[r] # None
        /\ req_timeout[r][1] < client_timeout
        /\ elapsed[r] = req_timeout[r][1]
        /\ closing[conn[r]]

\* C4 as stated: in every reachable state no connection stored in the pool has
\* its closing flag set.
C4_NoClosingConnectionInPool == \A c \in Pool : ~closing[c]

\* C4 as amended: no connection has its closing flag set at the moment it is
\* put into the pool, and check-out never hands out a connection whose closing
\* flag is set.
C4_PoolTakesAndGivesOpenConnections ==
    [][/\ \A c \in Range(conns') \ Pool : ~closing'[c]
       /\ \A r \in Requests :
            (conn'[r] # conn[r] /\ conn'[r] # 0) => ~closing'[conn'[r]]]_vars

\* C4 witness: the idle timer of a pooled connection has fired.
C4_Witness == \E c \in Pool : closing[c] /\ ~idle_timer[c]

\* C5: the number of connections in the pool never exceeds
\* max_idle_connections.
C5_PoolBounded == Len(conns) <= max_idle_connections

\* C6: close() neither pops a pooled connection nor returns while a request
\* holds the read-lock.
C6_CloseWaitsForReaders ==
    pcClose \in {"awaiting", "returned"} =>
        (read_count = 0 /\ \A r \in Requests : held[r] = 0)

\* C6 witness: close() has waited for readers, popped and returned.
C6_Witness == pcClose = "returned" /\ closeWoken /\ awaited # {}

\* C7: once the close-lock is engaged, every attempt to begin a fetch or a
\* send_request raises RuntimeError("Client is closing.") without incrementing
\* the in-flight count or checking out a connection.
C7_ClosingRefusesNewRequests ==
    [][\A r \in Requests :
          (close_closing /\ pc[r] \in {"fetch_aenter", "aenter"} /\ pc'[r] # pc[r]) =>
              /\ pc'[r] = "raised"
              /\ exc'[r] = ClientIsClosing
              /\ read_count' <= read_count
              /\ conn'[r] = 0
              /\ conns' = conns
              /\ numConns' = numConns]_vars

\* C7 witness: a call was refused while close() was waiting for another one.
C7_Witness ==
    /\ pcClose = "waiting"
    /\ \E r \in Requests : pc[r] = "raised" /\ exc[r] = ClientIsClosing

\* C8: the close-lock is engaged only while close() is executing, and a request
\* begun after close() returned is admitted by the read-lock.
C8_CloseLockReleasedAfterClose ==
    /\ pcClose \in {"idle", "returned"} => ~close_closing
    /\ \A r \in Requests : afterClose[r] => exc[r] # ClientIsClosing

\* C9: when close() returns the pool is empty, and every connection that was in
\* the pool when close() began to pop is closing and its teardown was awaited.
C9_CloseEmptiesPool ==
    pcClose = "returned" =>
        /\ conns = <<>>
        /\ \A c \in pooledAtClose : closing[c] /\ c \in awaited

\* C9 witness: close() has returned after popping two connections.
C9_Witness == pcClose = "returned" /\ Cardinality(pooledAtClose) >= 2

\* The header derivation of send_request has run.
Derived ==
    \/ send_pc \in {"write", "body", "response", "read_body", "returned"}
    \/ send_pc = "raised" /\ send_exc # "UnresolvableHost"

\* C10: when the headers lack content-length and calc_len raises
\* NotImplementedError, send_request sets transfer-encoding: chunked and goes
\* on to write the request headers and body.
C10_UnsizedBodyIsSentChunked ==
    (Derived /\ headers_in.cl = None /\ headers_in.te = None /\ body.len = None) =>
        /\ headers.te = <<"chunked">>
        /\ send_exc # "UnboundLocalError"
        /\ send_pc \in {"body", "response", "read_body", "returned", "raised"} =>
               written.headers = <<headers>>

\* C11: when the headers lack content-length and calc_len returns L,
\* send_request sets content-length to L exactly when L > 0 and leaves
\* transfer-encoding as the caller gave it; these are the headers written.
C11_SizedBodyGetsContentLength ==
    (Derived /\ headers_in.cl = None /\ body.len # None) =>
        /\ headers.cl = IF body.len[1] > 0 THEN body.len ELSE None
        /\ headers.te = headers_in.te
        /\ written.headers # None => written.headers = <<headers>>

\* C11 witness: an empty body was sent with neither content-length nor
\* transfer-encoding.
C11_Witness ==
    /\ send_pc = "returned"
    /\ headers_in.cl = None /\ headers_in.te = None
    /\ body.len = <<0>>
    /\ written.headers = <<[cl |-> None, te |-> None]>>
    /\ written.finished

\* C12: the value calc_len returns at any read position is the number of bytes
\* the reads that follow return up to EOFError (so the bytes written after
\* content-length was derived from it number exactly content-length).
C12_LenIsBytesLeft ==
    (at_eof /\ len_seen # None) => len_seen[1] = Len(out) - len_seen[2]

\* C13: reading a body to EOFError, calling seek_front and reading to EOFError
\* again yields the bytes of the first pass.
C13_RewindReplaysBody ==
    (pass = 2 /\ at_eof) => out = first

\* The limit the claims name: the per-call max_redirects, else the client's.
Limit == IF max_redirects = None THEN client_max_redirects ELSE max_redirects[1]

\* The response received last is a redirect.
Redirected == response # None /\ response[1].status \in RedirectStatuses

\* C14: the response to request number Limit + 1 ends the driver: it is
\* returned when it is no redirect and raises TooManyRedirects when it is one;
\* no response is returned unless it is no redirect, and the driver never
\* sends more than Limit + 1 requests.
C14_RedirectLimit ==
    /\ sent_count <= Limit + 1
    /\ redir_pc = "returned" => ~Redirected
    /\ (sent_count = Limit + 1 /\ response # None) =>
           IF Redirected
           THEN redir_pc = "raised" /\ redir_exc = "TooManyRedirects"
           ELSE redir_pc = "returned"
    /\ redir_exc = "TooManyRedirects" => (sent_count = Limit + 1 /\ Redirected)

\* C14 witness: with a per-call limit larger than the client's, exactly that
\* many redirects were followed and the final response was returned.
C14_Witness ==
    /\ redir_pc = "returned"
    /\ max_redirects # None
    /\ max_redirects[1] > client_max_redirects
    /\ sent_count = max_redirects[1] + 1

\* The location is an absolute http or https URI, or a path starting with "/".
Supported(location) == location[1] \in {"http:", "https:", "/"}

\* The driver has made the next request from the response received last.
Followed == redir_pc = "send" /\ response # None

\* C15: after a 307 or 308 response the next request has the method, headers
\* and body of the request being redirected, the body rewound; when that body
\* does not support seek_front the driver raises FailedRedirection and sends
\* no further request.
C15_Preserving ==
    (Redirected /\ response[1].status >= 307 /\ redir_pc # "follow"
        /\ response[1].location # None
        /\ Supported(response[1].location[1])
        /\ redir_exc # "TooManyRedirects") =>
        IF prev_request[1].body = "stream"
        THEN redir_pc = "raised" /\ redir_exc = "FailedRedirection"
        ELSE /\ redir_pc = "send"
             /\ next_request.method = prev_request[1].method
             /\ next_request.headers = prev_request[1].headers
             /\ next_request.body = prev_request[1].body
             /\ next_request.body_pos = "front"

\* C16: when the location begins with a single "/", the next request goes to
\* the scheme and authority of the previous request of the chain.
C16_PathGoesToPreviousOrigin ==
    (Followed /\ StartsWithSlash(response[1].location[1])) =>
        /\ next_request.scheme = prev_request[1].scheme
        /\ next_request.authority = prev_request[1].authority

\* C17: after a 301, 302 or 303 response the next request is a GET without
\* body and without any header of the previous request.
C17_RewrittenToGet ==
    (Followed /\ response[1].status \in {301, 302, 303}) =>
        /\ next_request.method = "GET"
        /\ next_request.body = "empty"
        /\ next_request.headers = {}

\* C17 witness: a POST with a body and a header of its own was answered by
\* 303 and is followed by a bare GET.
C17_Witness ==
    /\ Followed
    /\ response[1].status = 303
    /\ prev_request[1].method = "POST"
    /\ prev_request[1].body = "bytes"
    /\ prev_request[1].headers # {}
    /\ next_request.method = "GET"
    /\ next_request.headers = {}

\* C18 as stated: whenever a response is a redirect without location header,
\* at any position of the chain, the driver fails with BadResponse.
C18_MissingLocationIsBadResponse ==
    (Redirected /\ response[1].location = None /\ redir_pc # "follow") =>
        (redir_pc = "raised" /\ redir_exc = "BadResponse")

\* C18 as amended: a redirect without location header fails with BadResponse
\* when it is one of the first Limit responses, and with TooManyRedirects
\* when it is the response to request number Limit + 1.
C18_MissingLocationWithinLimit ==
    (Redirected /\ response[1].location = None /\ redir_pc # "follow") =>
        /\ redir_pc = "raised"
        /\ redir_exc = IF sent_count <= Limit THEN "BadResponse"
                                             ELSE "TooManyRedirects"

\* C18 witness: the second response of a chain, still within the limit, was a
\* redirect without location header and the driver raised BadResponse.
C18_Witness ==
    /\ redir_pc = "raised"
    /\ redir_exc = "BadResponse"
    /\ Redirected
    /\ response[1].location = None
    /\ sent_count = 2
    /\ Limit = 2

\* exceptions.TooManyRedirects is a FailedRedirection.
IsFailedRedirection(e) == e \in {"FailedRedirection", "TooManyRedirects"}

\* C19: when a redirect's location is neither an absolute http/https URI nor
\* a path starting with "/", the driver raises FailedRedirection and sends no
\* further request.
C19_RelativeLocationFails ==
    (Redirected /\ response[1].location # None
        /\ ~Supported(response[1].location[1])
        /\ redir_pc # "follow") =>
        (redir_pc = "raised" /\ IsFailedRedirection(redir_exc))

\* C19 witness: the second response of a chain carried a relative location
\* and the driver raised FailedRedirection after two requests.
C19_Witness ==
    /\ redir_pc = "raised"
    /\ redir_exc = "FailedRedirection"
    /\ Redirected
    /\ response[1].location = <<(<<"p">>)>>
    /\ sent_count = 2

\* The bound the claim names: the per-call max_body_size, else the client's.
BodyBound == IF max_body_size = None THEN client_max_body_size ELSE max_body_size[1]

\* C20: with read_response_body, a response is returned only with its whole
\* body, of at most BodyBound bytes; a body of BodyBound + 1 bytes or more is
\* never returned, and when its byte number BodyBound + 1 arrives the reader is
\* aborted and ResponseEntityTooLarge raised; the buffer never holds more than
\* BodyBound + 1 bytes.
C20_BodySizeBound ==
    /\ body_buf <= BodyBound + 1
    /\ (send_rrb /\ send_pc = "returned") =>
           (body_buf = resp_len /\ resp_len <= BodyBound /\ ~aborted)
    /\ (send_pc = "read_body" /\ resp_len <= BodyBound) => ~aborted
    /\ body_buf = BodyBound + 1 =>
           (aborted /\ send_pc = "raised" /\ send_exc = "ResponseEntityTooLarge")
    /\ aborted => (body_buf = BodyBound + 1 /\ resp_len >= BodyBound + 1)

\* C20 witness: under a per-call bound smaller than the client's, a body of
\* exactly that many bytes was returned.
C20_Witness ==
    /\ send_pc = "returned"
    /\ send_rrb
    /\ max_body_size # None
    /\ max_body_size[1] < client_max_body_size
    /\ max_body_size[1] >= 1
    /\ resp_len = max_body_size[1]
    /\ body_buf = resp_len

\* A lookup task begins its lookup of key k in this step.
Begins(t, k) == lk_pc[t] = "idle" /\ lk_pc'[t] # "idle" /\ lk_key'[t] = k

\* C21: while a key is overridden every lookup of it returns at once the
\* override's record and nothing else, whatever the time and the cache; the
\* passing of time removes no override; a lookup of a key that is not
\* overridden returns the cached or the live result; an override or its removal
\* changes nothing for the other keys.
C21_OverrideWins ==
    [][/\ \A t \in Lookups, k \in Keys :
            Begins(t, k) =>
                IF overrides[k] # None
                THEN /\ lk_pc'[t] = "returned"
                     /\ lk_result'[t][1].results = {"manual"}
                     /\ lk_calls'[t] = 0
                     /\ cache' = cache
                ELSE lk_pc'[t] = "returned" =>
                         (lk_result'[t] = cache[k] /\ cache[k] # None)
       /\ \A t \in Lookups :
            (lk_pc[t] = "lookup_now" /\ lk_pc'[t] = "returned") =>
                (lk_result'[t] = cache'[lk_key[t]]
                    /\ lk_result'[t][1].results # {"manual"})
       /\ now' # now => overrides' = overrides
       /\ \A k \in Keys :
            overrides'[k] # overrides[k] =>
                (cache' = cache /\ \A j \in Keys \ {k} : overrides'[j] = overrides[j])
      ]_vars

\* C21 witness: a lookup returned the override made earlier although the key
\* has a cached result.
C21_Witness ==
    \E t \in Lookups :
        /\ lk_pc[t] = "returned"
        /\ lk_result[t][1].results = {"manual"}
        /\ cache[lk_key[t]] # None
        /\ now > lk_result[t][1].resolved_at

\* C22 as stated: expired() is true exactly when ttl >= 0 and
\* now >= resolved_at + ttl.
C22_ExpiredAtTtl ==
    probe # None =>
        (probe[3] <=> (probe[1].ttl >= 0
                          /\ probe[2] >= probe[1].resolved_at + probe[1].ttl))

\* C22 as amended: expired() is true exactly when ttl >= 0 and
\* now > resolved_at + ttl; for ttl = -1 it is always false.
C22_ExpiredAfterTtl ==
    probe # None =>
        (probe[3] <=> (probe[1].ttl >= 0
                          /\ probe[2] > probe[1].resolved_at + probe[1].ttl))

\* C22 witness: a result asked at the instant resolved_at + ttl, some time
\* after it was made, is not expired.
C22_Witness ==
    /\ probe # None
    /\ probe[1].ttl >= 1
    /\ probe[2] = probe[1].resolved_at + probe[1].ttl
    /\ ~probe[3]

\* C23: a lookup of a key without override whose cached result has not expired
\* returns that cached result, leaves the cache alone and does not call
\* lookup_now; when the cached result has expired the lookup discards the
\* entry and calls lookup_now once, and the fresh result, made at the time
\* lookup_now returns, is cached and returned.
C23_CacheUntilExpiry ==
    [][/\ \A t \in Lookups, k \in Keys :
            (Begins(t, k) /\ overrides[k] = None /\ cache[k] # None) =>
                IF now <= cache[k][1].resolved_at + cache[k][1].ttl
                THEN /\ lk_pc'[t] = "returned"
                     /\ lk_result'[t] = cache[k]
                     /\ cache' = cache
                     /\ lk_calls'[t] = 0
                ELSE /\ lk_pc'[t] = "lookup_now"
                     /\ cache'[k] = None
                     /\ lk_calls'[t] = 1
       /\ \A t \in Lookups :
            (lk_pc[t] = "lookup_now" /\ lk_pc'[t] # "lookup_now") =>
                /\ lk_calls'[t] = 1
                /\ lk_pc'[t] = "returned" =>
                       /\ lk_result'[t] # None
                       /\ lk_result'[t][1].resolved_at = now
                       /\ cache'[lk_key[t]] = lk_result'[t]
      ]_vars

\* C23 witness: a lookup is in lookup_now, the entry of its key discarded,
\* after the result an earlier lookup of that key had cached has expired.
C23_Witness ==
    \E t, u \in Lookups :
        /\ lk_pc[t] = "lookup_now"
        /\ cache[lk_key[t]] = None
        /\ lk_pc[u] = "returned"
        /\ lk_key[u] = lk_key[t]
        /\ lk_calls[u] = 1
        /\ now > lk_result[u][1].resolved_at + lk_result[u][1].ttl

\* The results lookup_now produced that are still around.
Produced ==
    {cache[k][1] : k \in {j \in Keys : cache[j] # None}}
        \cup {lk_result[t][1] : t \in {u \in Lookups : lk_answers[u] # None}}

C25_RespectRemoteTtl ==
    \A t \in Lookups :
        (lk_answers[t] # None /\ resolver_kind \in {"async", "https"}) =>
            IF ~respect_remote_ttl
            THEN lk_result[t][1].ttl = min_ttl
            ELSE lk_answers[t][1].source = "dns" =>
                     \A m \in AnswerTtls(lk_answers[t][1]) :
                         ((\A u \in AnswerTtls(lk_answers[t][1]) : m <= u) /\ m > min_ttl)
                             => lk_result[t][1].ttl = m

\* The bytes of field number i of a form, header block first for a file.
FieldBytes(f, i) ==
    IF f.kind = "file"
    THEN Bytes(i, "prefix", 0, f.plen) \o Bytes(i, "file", 0, f.len)
    ELSE Bytes(i, "buf", 0, f.len)

RECURSIVE FormBytes(_, _)
FormBytes(fields, k) ==
    IF k = 0 THEN <<>> ELSE FormBytes(fields, k - 1) \o FieldBytes(fields[k], k)

\* field0 + field1 + ... + closing affix of the multipart body being read.
WholeForm ==
    FormBytes(rbody.fields, Len(rbody.fields)) \o Bytes(0, "affix", 0, rbody.affix)

\* C26: the chunks successive reads of a multipart body return up to EOFError
\* are together field0 + field1 + ... + closing affix.
C26_ReadsWholeForm ==
    (rbody.kind = "multipart" /\ at_eof) => out = WholeForm

\* C26, the reads of a body that was never measured nor rewound: they return
\* the whole form.
C26_FreshReadsWholeForm ==
    (rbody.kind = "multipart" /\ at_eof /\ pass = 1 /\ len_seen = None)
        => out = WholeForm

\* C26, chunks and end: every chunk a read returns lies within one part, a
\* read raises EOFError only when the whole closing affix has been returned,
\* and after that every read raises EOFError again.
C26_ChunksAndEnd ==
    [][rbody.kind = "multipart" =>
          /\ (pass' = pass /\ Len(out') > Len(out)) =>
                 \A j \in (Len(out) + 1)..Len(out') : out'[j][1] = out'[Len(out')][1]
          /\ at_eof' =>
                 /\ Len(out') >= rbody.affix
                 /\ SubSeq(out', Len(out') - rbody.affix + 1, Len(out'))
                        = Bytes(0, "affix", 0, rbody.affix)
          /\ (at_eof /\ pass' = pass) => (at_eof' /\ out' = out)
      ]_vars

\* C26 witness of the two properties that hold: a form of two fields, one of
\* them a file, read whole without measuring it.
C26_Witness ==
    /\ rbody.kind = "multipart"
    /\ at_eof
    /\ pass = 1
    /\ len_seen = None
    /\ Len(rbody.fields) = 2
    /\ rbody.fields[1].kind = "file"
    /\ rbody.fields[1].len = 2
    /\ out = WholeForm

\* Request r has received a response and its call has ended.
Answered(r) == status_code[r] # 0 /\ pc[r] \in {"raised", "returned"}

\* The raise_error in force for the call of r: the argument unless it is None.
RaiseErrorInForce(r) ==
    IF req_raise_error[r] = None THEN client_raise_error ELSE req_raise_error[r][1]

\* C27: a call that received a response raises HttpError, the response kept,
\* exactly when the raise_error in force is true and the status is 400 or
\* more; otherwise it returns the response.
C27_HttpErrorIffRaiseError ==
    \A r \in Requests :
        Answered(r) =>
            IF RaiseErrorInForce(r) /\ status_code[r] >= 400
            THEN pc[r] = "raised" /\ exc[r] = "HttpError"
            ELSE pc[r] = "returned" /\ exc[r] = ""

\* C27 witness: against a client that raises by default, a call with
\* raise_error=False returned its 404 response.
C27_Witness ==
    \E r \in {1} :
        /\ Answered(r)
        /\ client_raise_error
        /\ req_raise_error[r] = <<FALSE>>
        /\ status_code[r] = 404
        /\ pc[r] = "returned"

\* C28: a codec fault raised inside send_request leaves it as the public
\* error of its kind: ReadAborted, WriteAborted and WriteAfterFinished as
\* ConnectionClosed, ReceivedDataMalformed as BadResponse, EntityTooLarge as
\* ResponseEntityTooLarge; none of them leaves send_request as it is.
C28_CodecFaultsAreMapped ==
    /\ send_exc \notin CodecFaults
    /\ send_fault # "" =>
         /\ send_pc = "raised"
         /\ send_fault \in {"ReadAbortedError", "WriteAbortedError",
                            "WriteAfterFinishedError"}
                => send_exc = "ConnectionClosed"
         /\ send_fault = "ReceivedDataMalformedError" => send_exc = "BadResponse"
         /\ send_fault = "EntityTooLargeError" => send_exc = "ResponseEntityTooLarge"

\* C28 witness: the writer raised WriteAfterFinished while the body was being
\* written and send_request raised ConnectionClosed.
C28_Witness ==
    /\ send_fault = "WriteAfterFinishedError"
    /\ written.headers # None
    /\ written.bytes > 0
    /\ send_exc = "ConnectionClosed"

\* The call of request r holds a connection: from check-out to check-in.
Using(r) == pc[r] \in {"start", "exchange", "responded"}

\* C29: under every interleaving no connection is held by two calls at once
\* and none is in the pool while a call holds it: a connection checked out
\* has left the pool, and a connection enters the pool only at the check-in
\* of the call that held it, after its exchange.
C29_ExclusiveUse ==
    [][/\ \A r1, r2 \in Requests :
            (r1 # r2 /\ Using(r1)' /\ Using(r2)') => conn'[r1] # conn'[r2]
       /\ \A r \in Requests :
            Using(r)' => (conn'[r] # 0 /\ conn'[r] \notin Range(conns'))
       /\ \A c \in Range(conns') \ Range(conns) :
            \E r \in Requests :
                /\ conn[r] = c
                /\ pc[r] = "responded"
                /\ pc'[r] \in {"raised", "returned"}
      ]_vars

\* C29 witness: two calls for the same connection id are exchanging at once,
\* each on a connection of its own, the pool empty.
C29_Witness ==
    \E r1, r2 \in Requests :
        /\ r1 # r2
        /\ pc[r1] = "exchange"
        /\ pc[r2] = "exchange"
        /\ req_id[r1] = req_id[r2]
        /\ conn[r1] # conn[r2]
        /\ conns = <<>>

\* Request r is checked in by this step, with _put_conn called.
CheckedIn(r) ==
    /\ pc[r] = "responded"
    /\ pc'[r] \in {"raised", "returned"}
    /\ read_response_body[r]

\* C30: a check-in of a connection whose id is a key of the pool closes the
\* incoming connection and leaves the pool as it is; so does the check-in of
\* a closing connection and every check-in without allow_keep_alive; without
\* allow_keep_alive the pool is always empty.
C30_CheckInFrame ==
    [][/\ \A r \in Requests :
            (CheckedIn(r) /\ (\/ Pooled(conn_id[conn[r]]) # 0
                              \/ closing[conn[r]]
                              \/ ~allow_keep_alive)) =>
                /\ closing'[conn[r]]
                /\ conns' = conns
                /\ \A c \in Range(conns) : closing'[c] = closing[c]
       /\ ~allow_keep_alive => conns' = <<>>
      ]_vars

\* C30 witness: a call has ended whose connection was closed at check-in
\* because another connection of its id was in the pool.
C30_Witness ==
    \E r \in Requests :
        /\ pc[r] \in {"raised", "returned"}
        /\ status_code[r] # 0
        /\ read_response_body[r]
        /\ allow_keep_alive
        /\ closing[conn[r]]
        /\ idle_timer[conn[r]]
        /\ Pooled(conn_id[conn[r]]) \notin {0, conn[r]}

\* C31: the closing flag of a connection, once set, stays set, whatever closes
\* the connection again; a send_request begun on a closing connection never
\* gets to the exchange: it fails in get_ready with RuntimeError, unless its
\* deadline or a cancellation ends it first, and the pool is left alone.
C31_ClosingIsTerminal ==
    [][/\ \A c \in Conns : closing[c] => closing'[c]
       /\ \A r \in Requests :
            (pc[r] = "start" /\ closing[conn[r]] /\ pc'[r] # "start") =>
                /\ pc'[r] = "raised"
                /\ exc'[r] \in {ConnIsClosing, "RequestTimeout", "CancelledError"}
                /\ conns' = conns
                /\ status_code'[r] = 0
      ]_vars

\* C31 witness: a call was refused by get_ready of its closing connection,
\* which is not in the pool and whose timer get_ready has cancelled.
C31_Witness ==
    \E r \in Requests :
        /\ pc[r] = "raised"
        /\ exc[r] = ConnIsClosing
        /\ closing[conn[r]]
        /\ ~idle_timer[conn[r]]
        /\ conn[r] \notin Range(conns)

\* C32: the idle timer of a connection is armed exactly when the connection
\* is not closed and no exchange is running on it.
C32_TimerIffIdleAndOpen ==
    \A c \in 1..numConns :
        idle_timer[c] <=>
            (~closing[c] /\ ~\E r \in Requests : pc[r] = "exchange" /\ conn[r] = c)

\* C36: a call that holds the read-lock, admitted before close() was called,
\* never fails with RuntimeError("Client is closing.").
C36_AdmittedIsNotRefused ==
    [][\A r \in Requests :
          (held[r] >= 1 /\ pc'[r] = "raised") => exc'[r] # ClientIsClosing
      ]_vars

\* C40: no call fails with RuntimeError("This connection is closing."): the
\* idle timer never closes a connection between its check-out and get_ready.
C40_TimerNeverBeatsGetReady ==
    \A r \in Requests : exc[r] # ConnIsClosing

\* C37: in a chain in which a 301, 302 or 303 has turned a POST with a body
\* into a GET without body, a following 307 or 308 is followed with that GET
\* and no body.
C37_MixedChainKeepsGet ==
    (/\ Followed
     /\ response[1].status \in {307, 308}
     /\ request.method = "POST"
     /\ request.body # "empty"
     /\ prev_request[1].method = "GET"
     /\ prev_request[1].body = "empty") =>
        (next_request.method = "GET" /\ next_request.body = "empty")

\* C38: under a per-call max_body_size no hop of the chain accepts a response
\* body longer than it: every such body ends the call with
\* ResponseEntityTooLarge.
C38_BoundOnEveryHop ==
    (max_body_size # None /\ hop_body_len > max_body_size[1]) =>
        (redir_pc = "raised" /\ redir_exc = "ResponseEntityTooLarge")

\* connect_fastest has returned or raised.
Left == cf_pc \in {"returned", "raised"}

C34_FastestFirst ==
    [][/\ (cf_pc = "call" /\ cf_fastest # 0) =>
            (cf_pc' = "fastest" /\ cf_direct' = "pending"
                /\ \A r \in Records : cf_task'[r] = "none")
       /\ (cf_pc = "fastest" /\ cf_pc' = "returned") =>
            (cf_ret' = cf_fastest /\ cf_fastest' = cf_fastest
                /\ \A r \in Records : cf_task'[r] = "none")
       /\ (cf_pc = "fastest" /\ cf_pc' \notin {"fastest", "returned"}
              /\ cf_exc' # "CancelledError") =>
            (cf_fastest' = 0
                /\ \A r \in Records : (cf_task'[r] = "pending") <=> (r \in cf_results))
       /\ (cf_pc' = "returned" /\ cf_direct' # "ok") =>
            (cf_fastest' = cf_ret' /\ cf_ret' \in cf_results
                /\ cf_task'[cf_ret'] = "ok")
      ]_vars

\* C34 witness: the cached record failed, the race was won by another record,
\* which is now the cached one.
C34_Witness ==
    /\ cf_pc = "returned"
    /\ cf_direct = "failed"
    /\ cf_fastest # 0
    /\ cf_fastest = cf_ret
    /\ \E r \in cf_results : cf_task[r] = "failed"

\* C35: unless the caller is cancelled, connect_fastest raises UnresolvableHost
\* exactly when no record of the result is connectable (none at all included),
\* and otherwise returns the transport of a connectable record.
C35_UnresolvableIffAllFail ==
    (Left /\ cf_exc # "CancelledError") =>
        IF cf_results \cap cf_connectable = {}
        THEN cf_pc = "raised" /\ cf_exc = "UnresolvableHost"
        ELSE cf_pc = "returned" /\ cf_exc = "" /\ cf_ret \in cf_results \cap cf_connectable

\* C35 witness: two attempts failed before the third won the race.
C35_Witness ==
    /\ cf_pc = "returned"
    /\ Cardinality({r \in Records : cf_task[r] = "failed"}) = 2
    /\ cf_ret # 0
    /\ cf_task[cf_ret] = "ok"

\* C39: when connect_fastest returns, no attempt other than the one whose
\* transport is returned holds an open transport.
C39_NoLosingTransport ==
    cf_pc = "returned" => \A r \in Records \ {cf_ret} : cf_task[r] # "ok"
====
